---- MODULE Spec2Model ----
(***************************************************************************)
(* A model of the Logseq -> Orca importer: the text parser (parser.ts),    *)
(* the inline syntax scanner (importer.ts, parseContentToFragments) and    *)
(* the batch import loop (main.ts, importer.ts).                           *)
(*                                                                         *)
(* A JavaScript string is a sequence of one-character strings, so that     *)
(* trim, split, indexOf, substring and the regular expressions of the      *)
(* source are computed character by character.                             *)
(***************************************************************************)
EXTENDS Integers, Sequences, FiniteSets, TLC

VARIABLES
    pc,        \* position of the running program
    files,     \* the LogseqFile[] handed to parseLogseqGraph
    fileIdx,   \* parseLogseqGraph: index of the file of the for-of loop
    ps,        \* parseLogseqFile: its locals (page, lines, blockStack, ...)
    pageHeap,  \* the LogseqPage objects returned so far, in call order
    graph,     \* parseLogseqGraph: the LogseqGraph under construction
    assetPathMap, \* the Map<string, string> of preUploadAssetsAndGetPathMap
    scan,      \* parseContentToFragments: its locals (content, i, buffer, fragments)
    main,      \* startImportProcess: its locals (allPages, i, uuidToDbIdMap)
    imp,       \* importPageBatch and createBlocksRecursively: their locals
    orca,      \* the host: settings, directory, blocks, notifications, command log
    up         \* preUploadAssetsAndGetPathMap: its locals and the folder handle

vars == <<pc, files, fileIdx, ps, pageHeap, graph, assetPathMap, scan,
          main, imp, orca, up>>

---------------------------------------------------------------------------
(* Bounds of the model *)

\* Block lines of the generated files are indented by 0..MaxIndent spaces.
MaxIndent == 3
\* The generated files have at most MaxLines lines.
MaxLines == 4
\* parseLogseqGraph is given at most MaxFiles files of the small corpus.
MaxFiles == 3
\* The scanned texts are made of at most MaxTokens tokens.
MaxTokens == 3

---------------------------------------------------------------------------
(* JavaScript values and string primitives *)

\* null / undefined: a value no string (sequence of characters) equals.
NULL == <<"null">>

Min(S) == CHOOSE m \in S : \A n \in S : m <= n
Max(S) == CHOOSE m \in S : \A n \in S : m >= n

\* String.prototype.substring(from, to), 0-based, `to` exclusive.
Substring(s, from, to) == SubSeq(s, from + 1, to)

\* String.prototype.substring(from)
SubstringFrom(s, from) == SubSeq(s, from + 1, Len(s))

\* String.prototype.startsWith
StartsWith(s, p) == Len(s) >= Len(p) /\ SubSeq(s, 1, Len(p)) = p

\* String.prototype.endsWith
EndsWith(s, p) == Len(s) >= Len(p) /\ SubSeq(s, Len(s) - Len(p) + 1, Len(s)) = p

\* String.prototype.indexOf(p, from): 0-based index of the first occurrence of
\* p at or after `from`, -1 when there is none.
IndexOfFrom(s, p, from) ==
    LET hits == {k \in from .. (Len(s) - Len(p)) : SubSeq(s, k + 1, k + Len(p)) = p}
    IN IF hits = {} THEN -1 ELSE Min(hits)

\* String.prototype.indexOf(p)
IndexOf(s, p) == IndexOfFrom(s, p, 0)

\* \s of a regular expression, and the characters String.prototype.trim strips.
IsSpace(c) == c \in {" ", "\t", "\r"}

\* \w of a regular expression: [A-Za-z0-9_]
IsWordChar(c) ==
    c \in {"a","b","c","d","e","f","g","h","i","j","k","l","m",
           "n","o","p","q","r","s","t","u","v","w","x","y","z",
           "A","B","C","D","E","F","G","H","I","J","K","L","M",
           "N","O","P","Q","R","S","T","U","V","W","X","Y","Z",
           "0","1","2","3","4","5","6","7","8","9","_"}

\* line.match(/^\s*/)[0].length: the number of leading whitespace characters.
LeadingSpaces(s) == Max({k \in 0 .. Len(s) : \A j \in 1 .. k : IsSpace(s[j])})

\* The number of trailing whitespace characters.
TrailingSpaces(s) ==
    Max({k \in 0 .. Len(s) : \A j \in (Len(s) - k + 1) .. Len(s) : IsSpace(s[j])})

\* String.prototype.trim
Trim(s) ==
    IF LeadingSpaces(s) = Len(s) THEN <<>>
    ELSE SubSeq(s, LeadingSpaces(s) + 1, Len(s) - TrailingSpaces(s))

\* String.prototype.split(sep) for a one-character separator.
RECURSIVE Split(_, _)
Split(s, sep) ==
    LET k == IndexOf(s, <<sep>>)
    IN IF k = -1 THEN <<s>>
       ELSE <<Substring(s, 0, k)>> \o Split(SubstringFrom(s, k + 1), sep)

\* Array.prototype.join(sep)
RECURSIVE Join(_, _)
Join(parts, sep) ==
    IF parts = <<>> THEN <<>>
    ELSE IF Len(parts) = 1 THEN parts[1]
    ELSE parts[1] \o <<sep>> \o Join(Tail(parts), sep)

---------------------------------------------------------------------------
(* Map and plain-object semantics: keys keep their insertion order, and     *)
(* setting an existing key replaces its value in place.  A map is a         *)
(* sequence of <<key, value>> entries.                                      *)

MapHas(m, k) == \E e \in 1 .. Len(m) : m[e][1] = k

MapGet(m, k) ==
    IF MapHas(m, k) THEN m[CHOOSE e \in 1 .. Len(m) : m[e][1] = k][2] ELSE NULL

MapSet(m, k, v) ==
    IF MapHas(m, k)
    THEN [e \in 1 .. Len(m) |-> IF m[e][1] = k THEN <<k, v>> ELSE m[e]]
    ELSE Append(m, <<k, v>>)

MapKeys(m) == [e \in 1 .. Len(m) |-> m[e][1]]

MapValues(m) == [e \in 1 .. Len(m) |-> m[e][2]]

---------------------------------------------------------------------------
(* parser.ts: the regular expressions *)

\* PROPERTY_REGEX = /^(\w+):: (.+)$/ : the key is the leading run of word
\* characters, followed by ":: " and a non-empty value.
MatchProperty(s) ==
    LET n == Max({k \in 0 .. Len(s) : \A j \in 1 .. k : IsWordChar(s[j])})
    IN IF /\ n >= 1
          /\ Len(s) >= n + 4
          /\ SubSeq(s, n + 1, n + 3) = <<":", ":", " ">>
       THEN [ok |-> TRUE, key |-> SubSeq(s, 1, n), value |-> SubSeq(s, n + 4, Len(s))]
       ELSE [ok |-> FALSE, key |-> <<>>, value |-> <<>>]

\* An id expression that takes word characters only: /^id:: (\w+)$/
MatchIdWord(s) ==
    IF /\ StartsWith(s, <<"i", "d", ":", ":", " ">>)
       /\ Len(s) >= 6
       /\ \A k \in 6 .. Len(s) : IsWordChar(s[k])
    THEN [ok |-> TRUE, value |-> SubSeq(s, 6, Len(s))]
    ELSE [ok |-> FALSE, value |-> <<>>]

\* ID_REGEX = /^id:: (.+)$/
MatchId(s) ==
    IF StartsWith(s, <<"i", "d", ":", ":", " ">>) /\ Len(s) >= 6
    THEN [ok |-> TRUE, value |-> SubSeq(s, 6, Len(s))]
    ELSE [ok |-> FALSE, value |-> <<>>]

---------------------------------------------------------------------------
(* parser.ts: parseLogseqFile *)

\* level = indentation / 2 is a JavaScript number: whole + half / 2.
LevelOf(indentation) == [whole |-> indentation \div 2, half |-> indentation % 2]

\* a >= b on levels
LevelGE(a, b) == 2 * a.whole + a.half >= 2 * b.whole + b.half

\* a > b on levels
LevelGT(a, b) == 2 * a.whole + a.half > 2 * b.whole + b.half

\* a < b on levels
LevelLT(a, b) == ~LevelGE(a, b)

\* The pop condition with > in place of >=.
ShouldPopStrict(topLevel, level) == LevelGT(topLevel, level)

\* blockStack[blockStack.length - 1].level >= level
ShouldPop(topLevel, level) == LevelGE(topLevel, level)

\* while (blockStack.length > 0 && top.level >= level) blockStack.pop()
RECURSIVE PopStack(_, _, _)
PopStack(stack, nodes, level) ==
    IF Len(stack) > 0 /\ ShouldPop(nodes[stack[Len(stack)]].level, level)
    THEN PopStack(SubSeq(stack, 1, Len(stack) - 1), nodes, level)
    ELSE stack

\* file.path.replace(/\.md$/, "").split("/").pop() || "Untitled"
PageName(path) ==
    LET stripped == IF EndsWith(path, <<".", "m", "d">>)
                    THEN SubSeq(path, 1, Len(path) - 3) ELSE path
        parts == Split(stripped, "/")
        last == parts[Len(parts)]
    IN IF last = <<>> THEN <<"U", "n", "t", "i", "t", "l", "e", "d">> ELSE last

\* The locals of a call that takes no page property: the flag starts cleared.
ParseLocalsNoPageProperties(file) ==
    [page |-> [name |-> PageName(file.path), properties |-> <<>>,
               blocks |-> <<>>, nodes |-> <<>>],
     lines |-> Split(file.content, "\n"),
     lineNo |-> 1,
     currentBlock |-> 0,
     blockStack |-> <<>>,
     isFirstBlock |-> FALSE]

\* The locals of a call whose isFirstBlock flag outlives the call.
ParseLocalsStale(file) ==
    [page |-> [name |-> PageName(file.path), properties |-> <<>>,
               blocks |-> <<>>, nodes |-> <<>>],
     lines |-> Split(file.content, "\n"),
     lineNo |-> 1,
     currentBlock |-> 0,
     blockStack |-> <<>>,
     isFirstBlock |-> ps.isFirstBlock]

\* The locals of parseLogseqFile as the call sets them up.  The block objects
\* of a page live in page.nodes; blocks, children, blockStack and
\* currentBlock hold references (indices) into it, 0 for null.
ParseLocals(file) ==
    [page |-> [name |-> PageName(file.path), properties |-> <<>>,
               blocks |-> <<>>, nodes |-> <<>>],
     lines |-> Split(file.content, "\n"),
     lineNo |-> 1,
     currentBlock |-> 0,
     blockStack |-> <<>>,
     isFirstBlock |-> TRUE]

\* One iteration of `for (const line of lines)`.
LineStep(st, line) ==
    LET trimmedLine == Trim(line)
        isBlockLine == StartsWith(trimmedLine, <<"-", " ">>)
    IN
    IF trimmedLine = <<>> THEN st
    ELSE IF st.isFirstBlock /\ ~isBlockLine THEN
        LET match == MatchProperty(trimmedLine)
        IN IF match.ok
           THEN [st EXCEPT !.page.properties = MapSet(@, match.key, match.value)]
           ELSE st
    ELSE IF isBlockLine THEN
        LET level == LevelOf(LeadingSpaces(line))
            newBlock == [id |-> NULL,
                         content |-> SubstringFrom(trimmedLine, 2),
                         properties |-> <<>>,
                         children |-> <<>>,
                         level |-> level]
            stack == PopStack(st.blockStack, st.page.nodes, level)
            parent == IF Len(stack) > 0 THEN stack[Len(stack)] ELSE 0
            ref == Len(st.page.nodes) + 1
            nodes == Append(st.page.nodes, newBlock)
        IN [st EXCEPT
              !.isFirstBlock = FALSE,
              !.page.nodes = IF parent # 0
                             THEN [nodes EXCEPT ![parent].children = Append(@, ref)]
                             ELSE nodes,
              !.page.blocks = IF parent # 0 THEN @ ELSE Append(@, ref),
              !.blockStack = Append(stack, ref),
              !.currentBlock = ref]
    ELSE IF st.currentBlock # 0 THEN
        LET idMatch == MatchId(trimmedLine)
            propMatch == MatchProperty(trimmedLine)
        IN IF idMatch.ok
           THEN [st EXCEPT !.page.nodes[st.currentBlock].id = idMatch.value]
           ELSE IF propMatch.ok
           THEN [st EXCEPT !.page.nodes[st.currentBlock].properties =
                               MapSet(@, propMatch.key, propMatch.value)]
           ELSE st
    ELSE st

\* parseLogseqFile as a function: the loop run to its end.
RECURSIVE RunLines(_)
RunLines(st) ==
    IF st.lineNo > Len(st.lines) THEN st
    ELSE RunLines([LineStep(st, st.lines[st.lineNo]) EXCEPT !.lineNo = @ + 1])

ParseLogseqFile(file) == RunLines(ParseLocals(file)).page

---------------------------------------------------------------------------
(* parser.ts: parseLogseqGraph *)

\* The order in which recursivelyFindBlocks visits the blocks below `refs`.
RECURSIVE PreOrder(_, _)
PreOrder(nodes, refs) ==
    IF refs = <<>> THEN <<>>
    ELSE <<refs[1]>> \o PreOrder(nodes, nodes[refs[1]].children)
                     \o PreOrder(nodes, Tail(refs))

\* A registration that keeps the first block of an id.
RECURSIVE RegisterBlocksFirst(_, _, _, _)
RegisterBlocksFirst(index, page, pageRef, order) ==
    IF order = <<>> THEN index
    ELSE LET block == page.nodes[order[1]]
             next == IF block.id # NULL /\ ~MapHas(index, block.id)
                     THEN MapSet(index, block.id, [page |-> pageRef, node |-> order[1]])
                     ELSE index
         IN RegisterBlocksFirst(next, page, pageRef, Tail(order))

\* recursivelyFindBlocks(page.blocks): graph.blocks.set(block.id, block) for
\* every visited block with an id.  An index entry refers to a block object:
\* the page object (its place in pageHeap) and the node in it.
RECURSIVE RegisterBlocks(_, _, _, _)
RegisterBlocks(index, page, pageRef, order) ==
    IF order = <<>> THEN index
    ELSE LET block == page.nodes[order[1]]
             next == IF block.id # NULL
                     THEN MapSet(index, block.id, [page |-> pageRef, node |-> order[1]])
                     ELSE index
         IN RegisterBlocks(next, page, pageRef, Tail(order))

\* An aggregation that keeps the first page of a name.
GraphAddFirst(g, page, pageRef) ==
    [pages |-> IF MapHas(g.pages, page.name) THEN g.pages
               ELSE MapSet(g.pages, page.name, pageRef),
     blocks |-> RegisterBlocks(g.blocks, page, pageRef,
                               PreOrder(page.nodes, page.blocks))]

\* The body of `for (const file of files)` after parseLogseqFile returned.
GraphAdd(g, page, pageRef) ==
    [pages |-> MapSet(g.pages, page.name, pageRef),
     blocks |-> RegisterBlocks(g.blocks, page, pageRef,
                               PreOrder(page.nodes, page.blocks))]

EmptyGraph == [pages |-> <<>>, blocks |-> <<>>]

\* parseLogseqGraph as a function: the graph and the page objects it holds.
RECURSIVE RunFiles(_, _, _)
RunFiles(fs, g, heap) ==
    IF fs = <<>> THEN [graph |-> g, pageHeap |-> heap]
    ELSE LET page == ParseLogseqFile(fs[1])
         IN RunFiles(Tail(fs), GraphAdd(g, page, Len(heap) + 1), Append(heap, page))

ParseLogseqGraph(fs) == RunFiles(fs, EmptyGraph, <<>>)

\* graph.blocks.get(uuid): <<block>> for the block object, <<>> for undefined.
GetBlock(g, heap, uuid) ==
    IF MapHas(g.blocks, uuid)
    THEN LET ref == MapGet(g.blocks, uuid) IN <<heap[ref.page].nodes[ref.node]>>
    ELSE <<>>

---------------------------------------------------------------------------
(* importer.ts: parseContentToFragments *)

\* The literals of the source.  A character outside ASCII is written as its
\* code point.
EMBED_OPEN == <<"{", "{", "e", "m", "b", "e", "d", " ", "(", "(">>
EMBED_CLOSE == <<")", ")", "}", "}">>
REF_OPEN == <<"(", "(">>
REF_CLOSE == <<")", ")">>
LINK_OPEN == <<"[", "[">>
TAGLINK_OPEN == <<"#", "[", "[">>
LINK_CLOSE == <<"]", "]">>
\* `未找到的块: `
BLOCK_NOT_FOUND == <<"U+672A", "U+627E", "U+5230", "U+7684", "U+5757", ":", " ">>
\* `[附件未找到: `
ATTACHMENT_NOT_FOUND ==
    <<"[", "U+9644", "U+4EF6", "U+672A", "U+627E", "U+5230", ":", " ">>

IsDigit(c) == c \in {"0", "1", "2", "3", "4", "5", "6", "7", "8", "9"}

\* String.prototype.toLowerCase on one character (the i flag of a regex).
LowerChar(c) ==
    LET upper == <<"A","B","C","D","E","F","G","H","I","J","K","L","M",
                   "N","O","P","Q","R","S","T","U","V","W","X","Y","Z">>
        lower == <<"a","b","c","d","e","f","g","h","i","j","k","l","m",
                   "n","o","p","q","r","s","t","u","v","w","x","y","z">>
    IN IF \E k \in 1 .. 26 : upper[k] = c
       THEN lower[CHOOSE k \in 1 .. 26 : upper[k] = c] ELSE c

Lower(s) == [k \in 1 .. Len(s) |-> LowerChar(s[k])]

\* parseInt of a string of decimal digits.
RECURSIVE ParseInt(_)
ParseInt(digits) ==
    IF digits = <<>> THEN 0
    ELSE 10 * ParseInt(SubSeq(digits, 1, Len(digits) - 1))
         + (CHOOSE d \in 0 .. 9 :
              <<"0","1","2","3","4","5","6","7","8","9">>[d + 1] = digits[Len(digits)])

\* The number of whitespace characters of s from 0-based index `from` on.
SpacesFrom(s, from) == LeadingSpaces(SubstringFrom(s, from))

\* remaining.match(/^#([^\s#\[\]]+)/): the tag name, NULL when there is no match.
MatchTag(s) ==
    LET ok(c) == ~IsSpace(c) /\ c \notin {"#", "[", "]"}
        n == Max({k \in 0 .. (Len(s) - 1) : \A j \in 2 .. (k + 1) : ok(s[j])})
    IN IF Len(s) >= 2 /\ s[1] = "#" /\ n >= 1 THEN SubSeq(s, 2, n + 1) ELSE NULL

NoAttachment ==
    [ok |-> FALSE, index |-> 0, length |-> 0,
     altText |-> <<>>, localPath |-> <<>>, attrs |-> NULL]

\* s.match(ATTACHMENT_REGEX), ATTACHMENT_REGEX =
\*   /(!?\[(.*?)\]\((.*?)\))\s*(\{:(.*?)\})?/
\* The expression is not anchored: the match starts at the leftmost "[" or
\* "![" after which "](" and then ")" occur; the lazy groups end at the
\* first "](" and the first ")"; \s* takes the whitespace that follows, and
\* the attribute group "{:...}" is taken when it closes.  index is the
\* match's 0-based place in s, length the length of match[0]; attrs is NULL
\* when the attribute group did not take part.
MatchAttachment(s) ==
    LET opens == {k \in 0 .. (Len(s) - 1) :
                    \/ s[k + 1] = "["
                    \/ s[k + 1] = "!" /\ k + 2 <= Len(s) /\ s[k + 2] = "["}
    IN IF opens = {} THEN NoAttachment
       ELSE
       LET start == Min(opens)
           bracket == IF s[start + 1] = "!" THEN start + 1 ELSE start
           altEnd == IndexOfFrom(s, <<"]", "(">>, bracket + 1)
           pathEnd == IF altEnd = -1 THEN -1 ELSE IndexOfFrom(s, <<")">>, altEnd + 2)
       IN IF altEnd = -1 \/ pathEnd = -1 THEN NoAttachment
          ELSE
          LET afterSpaces == pathEnd + 1 + SpacesFrom(s, pathEnd + 1)
              attrEnd == IF StartsWith(SubstringFrom(s, afterSpaces), <<"{", ":">>)
                         THEN IndexOfFrom(s, <<"}">>, afterSpaces + 2) ELSE -1
              end == IF attrEnd = -1 THEN afterSpaces ELSE attrEnd + 1
          IN [ok |-> TRUE,
              index |-> start,
              length |-> end - start,
              altText |-> Substring(s, bracket + 1, altEnd),
              localPath |-> Substring(s, altEnd + 2, pathEnd),
              attrs |-> IF attrEnd = -1 THEN NULL
                        ELSE Substring(s, afterSpaces + 2, attrEnd)]

\* attrs.match(/:<name>\s+(\d+)/)?.[1]: the digits, NULL when there is no match.
MatchDimension(attrs, name) ==
    LET key == <<":">> \o name
        hits == {k \in 0 .. (Len(attrs) - Len(key)) :
                   /\ SubSeq(attrs, k + 1, k + Len(key)) = key
                   /\ SpacesFrom(attrs, k + Len(key)) >= 1
                   /\ LET d == k + Len(key) + SpacesFrom(attrs, k + Len(key))
                      IN d < Len(attrs) /\ IsDigit(attrs[d + 1])}
    IN IF hits = {} THEN NULL
       ELSE LET k == Min(hits)
                d == k + Len(key) + SpacesFrom(attrs, k + Len(key))
                n == Max({m \in 1 .. (Len(attrs) - d) :
                            \A j \in (d + 1) .. (d + m) : IsDigit(attrs[j])})
            IN SubSeq(attrs, d + 1, d + n)

\* /\.(png|jpg|jpeg|gif|svg|webp)$/i.test(localPath)
IsImagePath(path) ==
    \E ext \in {<<"p","n","g">>, <<"j","p","g">>, <<"j","p","e","g">>,
                <<"g","i","f">>, <<"s","v","g">>, <<"w","e","b","p">>} :
        EndsWith(Lower(path), <<".">> \o ext)

\* The reference text without the fallback: block?.content
RefValueNoFallback(block, uuid) ==
    IF block # <<>> THEN block[1].content ELSE NULL

\* The reference text taken from the block's id: block?.id || ...
RefValueId(block, uuid) ==
    IF block # <<>> /\ block[1].id # NULL THEN block[1].id
    ELSE BLOCK_NOT_FOUND \o uuid

\* block?.content || `not found: ${uuid}`, block being <<>> or <<object>>
RefValue(block, uuid) ==
    IF block # <<>> /\ block[1].content # <<>> THEN block[1].content
    ELSE BLOCK_NOT_FOUND \o uuid

\* flushBuffer()
FlushBuffer(st) ==
    IF st.buffer # <<>>
    THEN [st EXCEPT !.fragments = Append(@, [t |-> "t", v |-> st.buffer]),
                    !.buffer = <<>>]
    ELSE st

\* The path of a mapped attachment left as it was in the source text.
NewPathUnmapped(m, apm) == IF MapHas(apm, m.localPath) THEN m.localPath ELSE NULL

\* A lookup that gives the path of the text back when the map lacks it.
NewPathOrSame(m, apm) ==
    IF MapHas(apm, m.localPath) THEN MapGet(apm, m.localPath) ELSE m.localPath

\* const newPath = assetPathMap.get(localPath)
NewPath(m, apm) == MapGet(apm, m.localPath)

\* The fragment pushed for a matched attachment.
AttachmentFragment(m, apm) ==
    LET newPath == NewPath(m, apm)
    IN IF newPath # NULL /\ newPath # <<>>
       THEN IF IsImagePath(m.localPath)
            THEN LET width == IF m.attrs # NULL /\ m.attrs # <<>>
                              THEN MatchDimension(m.attrs, <<"w","i","d","t","h">>)
                              ELSE NULL
                     height == IF m.attrs # NULL /\ m.attrs # <<>>
                               THEN MatchDimension(m.attrs, <<"h","e","i","g","h","t">>)
                               ELSE NULL
                     base == [t |-> "i", v |-> newPath, a |-> m.altText]
                 IN IF width # NULL /\ height # NULL
                    THEN [t |-> "i", v |-> newPath, a |-> m.altText,
                          w |-> ParseInt(width), h |-> ParseInt(height)]
                    ELSE IF width # NULL
                    THEN [t |-> "i", v |-> newPath, a |-> m.altText,
                          w |-> ParseInt(width)]
                    ELSE IF height # NULL
                    THEN [t |-> "i", v |-> newPath, a |-> m.altText,
                          h |-> ParseInt(height)]
                    ELSE base
            ELSE LET parts == Split(m.localPath, "/")
                 IN [t |-> "t",
                     v |-> IF m.altText # <<>> THEN m.altText ELSE parts[Len(parts)],
                     f |-> "l",
                     fa |-> [l |-> newPath, t |-> "_blank"]]
       ELSE [t |-> "t", v |-> ATTACHMENT_NOT_FOUND \o m.localPath \o <<"]">>]

\* i += fullMatch.length
AfterAttachment(i, m) == i + m.length

\* The plain-text step with `buffer = content[i]` in place of `+=`.
PlainCharOverwrite(st) == [st EXCEPT !.buffer = <<st.content[st.i + 1]>>, !.i = @ + 1]

\* buffer += content[i]; i++
PlainChar(st) == [st EXCEPT !.buffer = Append(@, st.content[st.i + 1]), !.i = @ + 1]

\* The locals of parseContentToFragments as the call sets them up.
ScanLocals(content) ==
    [content |-> content, i |-> 0, buffer |-> <<>>, fragments |-> <<>>]

\* One iteration of `while (i < content.length)`.
ScanIter(st, g, heap, apm) ==
    LET remaining == SubstringFrom(st.content, st.i)
        embedEnd == IndexOf(remaining, EMBED_CLOSE)
        refEnd == IndexOf(remaining, REF_CLOSE)
        isTag == StartsWith(remaining, <<"#">>)
        linkEnd == IndexOf(remaining, LINK_CLOSE)
        tagMatch == MatchTag(remaining)
        attachmentMatch == MatchAttachment(remaining)
        push(frag, n) == [FlushBuffer(st) EXCEPT !.fragments = Append(@, frag),
                                                 !.i = st.i + n]
    IN
    IF StartsWith(remaining, EMBED_OPEN) /\ embedEnd # -1 THEN
        LET uuid == Substring(remaining, 10, embedEnd)
        IN push([t |-> "r", v |-> RefValue(GetBlock(g, heap, uuid), uuid), q |-> uuid],
                embedEnd + 4)
    ELSE IF StartsWith(remaining, REF_OPEN) /\ refEnd # -1 THEN
        LET uuid == Substring(remaining, 2, refEnd)
        IN push([t |-> "r", v |-> RefValue(GetBlock(g, heap, uuid), uuid), q |-> uuid],
                refEnd + 2)
    ELSE IF /\ StartsWith(remaining, LINK_OPEN) \/ StartsWith(remaining, TAGLINK_OPEN)
            /\ linkEnd # -1 THEN
        LET startIdx == IF isTag THEN 3 ELSE 2
        IN push([t |-> "r", v |-> Substring(remaining, startIdx, linkEnd)], linkEnd + 2)
    ELSE IF tagMatch # NULL THEN
        push([t |-> "r", v |-> tagMatch], Len(tagMatch) + 1)
    ELSE IF attachmentMatch.ok THEN
        [FlushBuffer(st) EXCEPT
            !.fragments = Append(@, AttachmentFragment(attachmentMatch, apm)),
            !.i = AfterAttachment(st.i, attachmentMatch)]
    ELSE PlainChar(st)

\* parseContentToFragments as a function: the loop run to its end, then
\* flushBuffer(); return fragments.
RECURSIVE RunScan(_, _, _, _)
RunScan(st, g, heap, apm) ==
    IF st.i < Len(st.content) THEN RunScan(ScanIter(st, g, heap, apm), g, heap, apm)
    ELSE FlushBuffer(st).fragments

ParseContentToFragments(content, g, heap, apm) ==
    RunScan(ScanLocals(content), g, heap, apm)

---------------------------------------------------------------------------
(* Input files *)

Indent(n) == [j \in 1 .. n |-> " "]

BlockLine(n, text) == Indent(n) \o <<"-", " ">> \o text

IdLine == <<" ", " ", "i", "d", ":", ":", " ", "u">>

PropLine == <<"k", ":", ":", " ", "v">>

\* The lines the generated files are made of: block lines at every
\* indentation (odd ones included), an id line, a property line, a blank line.
LineSet ==
    {BlockLine(n, <<"a">>) : n \in 0 .. MaxIndent} \cup {IdLine, PropLine, <<>>}

GeneratedFiles ==
    {[path |-> <<"p", "a", "g", "e", "s", "/", "t", ".", "m", "d">>,
      content |-> Join(ls, "\n")] :
        ls \in UNION {[1 .. n -> LineSet] : n \in 0 .. MaxLines}}

\* pages/Foo.md of the end-to-end example.
FooFile ==
    [path |-> <<"p","a","g","e","s","/","F","o","o",".","m","d">>,
     content |->
        <<"-"," ","F","i","r","s","t"," ","b","l","o","c","k","\n",
          " "," ","i","d",":",":"," ","a","b","c","-","1","2","3","\n",
          "-"," ","S","e","c","o","n","d"," ","b","l","o","c","k"," ",
          "r","e","f","e","r","e","n","c","e","s"," ",
          "(","(","a","b","c","-","1","2","3",")",")">>]

\* A page property, a block with an id and a property, a nested block.
PropsFile ==
    [path |-> <<"p","a","g","e","s","/","p",".","m","d">>,
     content |->
        <<"k",":",":"," ","v","\n",
          "-"," ","a","\n",
          " "," ","i","d",":",":"," ","u","\n",
          " "," ","k",":",":"," ","w","\n",
          " "," ","-"," ","b">>]

\* A second file named p.md, in another folder; a line that is neither a block
\* nor a property.
JournalFile ==
    [path |-> <<"j","o","u","r","n","a","l","s","/","p",".","m","d">>,
     content |->
        <<"j","u","n","k","\n",
          "-"," ","c","\n",
          " "," ","i","d",":",":"," ","u">>]

\* A block followed by two id lines, a property line and a line that is
\* neither, then a second block.
TwoIdsFile ==
    [path |-> <<"p","a","g","e","s","/","i",".","m","d">>,
     content |->
        <<"-"," ","a","\n",
          " "," ","i","d",":",":"," ","u","\n",
          " "," ","i","d",":",":"," ","v","\n",
          " "," ","k",":",":"," ","w","\n",
          " "," ","z","z","\n",
          "-"," ","b">>]

\* A second file named i.md, in another folder, without an id.
ShadowFile ==
    [path |-> <<"j","o","u","r","n","a","l","s","/","i",".","m","d">>,
     content |-> <<"-"," ","c">>]

SmallCorpus == {FooFile, PropsFile, JournalFile, TwoIdsFile, ShadowFile}

\* The file lists given to parseLogseqGraph: every generated file on its own,
\* and every list of 2..MaxFiles files of the small corpus (with repeats).
ParseInputs ==
    {<<f>> : f \in GeneratedFiles \cup SmallCorpus}
        \cup UNION {[1 .. n -> SmallCorpus] : n \in 2 .. MaxFiles}

---------------------------------------------------------------------------
(* The parser as a state machine: parseLogseqGraph(files) *)

\* No call of parseContentToFragments is active.
IdleScan == [content |-> <<>>, i |-> 0, buffer |-> <<>>, fragments |-> <<>>]

\* No import run was started.
IdleMain == [allPages |-> <<>>, i |-> 0, uuidToDbIdMap |-> <<>>, calls |-> <<>>]

\* No call of importPageBatch is active.
IdleImp == [pagesToImport |-> <<>>, pageNo |-> 1, page |-> 0, frames |-> <<>>, entry |-> 1]

\* A host that is not used.
IdleOrca ==
    [logseqPath |-> <<>>, directory |-> <<>>, blocks |-> <<>>,
     notifications |-> <<>>, log |-> <<>>, mayFail |-> FALSE]

\* No call of preUploadAssetsAndGetPathMap is active.
IdleUpload ==
    [logseqFolder |-> [hasAssets |-> FALSE, assets |-> {}], allAssetPaths |-> <<>>, k |-> 1,
     filesToUpload |-> <<>>, pathsToUpload |-> <<>>]

\* No call of parseLogseqFile is active.
IdleLocals ==
    [page |-> [name |-> <<>>, properties |-> <<>>, blocks |-> <<>>, nodes |-> <<>>],
     lines |-> <<>>, lineNo |-> 1, currentBlock |-> 0, blockStack |-> <<>>,
     isFirstBlock |-> TRUE]

InitParse ==
    /\ files \in ParseInputs
    /\ pc = "graphLoop"
    /\ fileIdx = 1
    /\ ps = IdleLocals
    /\ pageHeap = <<>>
    /\ graph = EmptyGraph
    /\ assetPathMap = <<>>
    /\ scan = IdleScan
    /\ up = IdleUpload
    /\ main = IdleMain
    /\ imp = IdleImp
    /\ orca = IdleOrca

\* for (const file of files) { const page = parseLogseqFile(file): the call.
ParseFileCall ==
    /\ pc = "graphLoop"
    /\ fileIdx <= Len(files)
    /\ ps' = ParseLocals(files[fileIdx])
    /\ pc' = "parsing"
    /\ UNCHANGED <<files, fileIdx, pageHeap, graph, assetPathMap, scan, main, imp, orca, up>>

\* One iteration of the loop over the lines.
ParseLine ==
    /\ pc = "parsing"
    /\ ps.lineNo <= Len(ps.lines)
    /\ ps' = [LineStep(ps, ps.lines[ps.lineNo]) EXCEPT !.lineNo = @ + 1]
    /\ UNCHANGED <<pc, files, fileIdx, pageHeap, graph, assetPathMap, scan, main, imp, orca, up>>

\* return page; graph.pages.set(page.name, page); recursivelyFindBlocks(...)
ParseFileReturn ==
    /\ pc = "parsing"
    /\ ps.lineNo > Len(ps.lines)
    /\ pageHeap' = Append(pageHeap, ps.page)
    /\ graph' = GraphAdd(graph, ps.page, Len(pageHeap) + 1)
    /\ fileIdx' = fileIdx + 1
    /\ pc' = "graphLoop"
    /\ UNCHANGED <<files, ps, assetPathMap, scan, main, imp, orca, up>>

\* return graph
ParseGraphReturn ==
    /\ pc = "graphLoop"
    /\ fileIdx > Len(files)
    /\ pc' = "graphDone"
    /\ UNCHANGED <<files, fileIdx, ps, pageHeap, graph, assetPathMap, scan, main, imp, orca, up>>

NextParse == ParseFileCall \/ ParseLine \/ ParseFileReturn \/ ParseGraphReturn

SpecParse == InitParse /\ [][NextParse]_vars

---------------------------------------------------------------------------
(* The scanner as a state machine: parseContentToFragments(content, graph,  *)
(* assetPathMap)                                                            *)

\* Two blocks that reference each other, and a block whose id ends with ")"
\* (ID_REGEX takes any text as an id).
CycleFile ==
    [path |-> <<"p","a","g","e","s","/","c",".","m","d">>,
     content |->
        <<"-"," ","x"," ","(","(","v",")",")","\n",
          " "," ","i","d",":",":"," ","u","\n",
          "-"," ","y"," ","(","(","u",")",")","\n",
          " "," ","i","d",":",":"," ","v","\n",
          "-"," ","z","\n",
          " "," ","i","d",":",":"," ","w",")">>]

A_PNG == <<".",".","/","a","s","s","e","t","s","/","a",".","p","n","g">>
D_PDF == <<".",".","/","a","s","s","e","t","s","/","d",".","p","d","f">>
M_PNG == <<".",".","/","a","s","s","e","t","s","/","m",".","p","n","g">>

\* The map after a.png and d.pdf were uploaded; m.png was not found.
UploadedAssets ==
    <<<<A_PNG, <<"a","s","s","e","t","s","/","a",".","p","n","g">>>>,
      <<D_PDF, <<"a","s","s","e","t","s","/","d",".","p","d","f">>>>>>

RefText(id) == REF_OPEN \o id \o REF_CLOSE

EmbedText(id) == EMBED_OPEN \o id \o EMBED_CLOSE

ImageText(alt, path) == <<"!", "[">> \o alt \o <<"]", "(">> \o path \o <<")">>

LinkText(alt, path) == <<"[">> \o alt \o <<"]", "(">> \o path \o <<")">>

AttrText == <<"{",":","h","e","i","g","h","t"," ","4",","," ",
              ":","w","i","d","t","h"," ","3","0","}">>

\* The pieces the scanned texts are made of: plain characters, characters
\* that open a syntax, whole references, embeds, links, tags and attachments
\* (resolved and not), an attribute block, and openers that never close.
Tokens ==
    {<<"a">>, <<" ">>, <<"(">>, <<"#">>, <<"!">>, <<"[", "a", "]">>,
     RefText(<<"u">>), RefText(<<"z">>), RefText(<<"w", ")">>),
     EmbedText(<<"u">>), EmbedText(<<"z">>),
     LINK_OPEN \o <<"P">> \o LINK_CLOSE, <<"#", "t">>,
     ImageText(<<"x">>, A_PNG), LinkText(<<"d">>, D_PDF), ImageText(<<"y">>, M_PNG),
     AttrText, REF_OPEN, EMBED_OPEN, LINK_OPEN}

RECURSIVE Concat(_)
Concat(parts) == IF parts = <<>> THEN <<>> ELSE parts[1] \o Concat(Tail(parts))

\* The content of every block of the pages on the heap.
BlockContents(heap) ==
    UNION {{heap[p].nodes[k].content : k \in 1 .. Len(heap[p].nodes)} :
              p \in 1 .. Len(heap)}

\* Texts of 1..MaxTokens tokens.  A block's content is trimmedLine.substring(2)
\* of a trimmed line that starts with "- ": it is never empty and never ends
\* with whitespace.
TokenTexts ==
    {c \in {Concat(ts) : ts \in UNION {[1 .. n -> Tokens] : n \in 1 .. MaxTokens}} :
        ~IsSpace(c[Len(c)])}

InitScan ==
    /\ files \in {<<CycleFile>>, <<FooFile>>}
    /\ pc = "scanning"
    /\ fileIdx = Len(files) + 1
    /\ ps = IdleLocals
    /\ pageHeap = ParseLogseqGraph(files).pageHeap
    /\ graph = ParseLogseqGraph(files).graph
    /\ assetPathMap = UploadedAssets
    /\ scan \in {ScanLocals(c) :
                    c \in BlockContents(ParseLogseqGraph(files).pageHeap)
                          \cup (IF files = <<CycleFile>> THEN TokenTexts ELSE {})}
    /\ up = IdleUpload
    /\ main = IdleMain
    /\ imp = IdleImp
    /\ orca = IdleOrca

\* One iteration of `while (i < content.length)`.
ScanStep ==
    /\ pc = "scanning"
    /\ scan.i < Len(scan.content)
    /\ scan' = ScanIter(scan, graph, pageHeap, assetPathMap)
    /\ UNCHANGED <<pc, files, fileIdx, ps, pageHeap, graph, assetPathMap, main, imp, orca, up>>

\* flushBuffer(); return fragments;
ScanReturn ==
    /\ pc = "scanning"
    /\ scan.i >= Len(scan.content)
    /\ scan' = FlushBuffer(scan)
    /\ pc' = "scanDone"
    /\ UNCHANGED <<files, fileIdx, ps, pageHeap, graph, assetPathMap, main, imp, orca, up>>

NextScan == ScanStep \/ ScanReturn

SpecScan == InitScan /\ [][NextScan]_vars


---------------------------------------------------------------------------
(* importer.ts: pass 2 of importPageBatch, the rewrite of a block's text *)

\* p occurs in s at 0-based index k.
OccursAt(s, p, k) == k >= 0 /\ k + Len(p) <= Len(s) /\ SubSeq(s, k + 1, k + Len(p)) = p

\* The decimal digits of a DbId, as `${referencedDbId}` writes them.
RECURSIVE ToDigits(_)
ToDigits(n) ==
    LET digit(d) == <<"0","1","2","3","4","5","6","7","8","9">>[d + 1]
    IN IF n < 10 THEN <<digit(n)>> ELSE ToDigits(n \div 10) \o <<digit(n % 10)>>

\* The length of the longest run of characters of s from 0-based index k on
\* none of which is in stop: a greedy negated character class.
RunLength(s, k, stop) ==
    Max({n \in 0 .. (Len(s) - k) : \A j \in (k + 1) .. (k + n) : s[j] \notin stop})

NoSpan == [ok |-> FALSE, group |-> <<>>, group2 |-> <<>>, length |-> 0]

\* open, then at least min characters outside stop, then close, at index k.
MatchSpan(s, k, open, stop, min, close) ==
    IF ~OccursAt(s, open, k) THEN NoSpan
    ELSE LET g == k + Len(open)
             n == RunLength(s, g, stop)
         IN IF n >= min /\ OccursAt(s, close, g + n)
            THEN [ok |-> TRUE, group |-> Substring(s, g, g + n), group2 |-> <<>>,
                  length |-> Len(open) + n + Len(close)]
            ELSE NoSpan

WHITESPACE == {" ", "\t", "\r"}

ASSETS_DIR == <<"a","s","s","e","t","s","/">>

\* The match of one of the expressions of pass 2 at index k of s:
\*   ASSET_REGEX = /!\[([^\]]*)\]\(\.\.\/(assets\/[^\)]+)\)/g
\*   LINK_REGEX = /\[\[([^\]]+)\]\]/g
\*   TAG_REGEX = /#([^\s#\[\]\(\)]+)/g
\*   BLOCK_REF_REGEX = /\(\(([^\)]+)\)\)/g
\*   BLOCK_EMBED_REGEX = /\{\{embed \(\(([^\)]+)\)\}\}/g
\* (the embed expression closes with one ")" before "}}").
MatchAt(kind, s, k) ==
    CASE kind = "asset" ->
           LET alt == MatchSpan(s, k, <<"!", "[">>, {"]"}, 0,
                                <<"]", "(", ".", ".", "/">> \o ASSETS_DIR)
               path == MatchSpan(s, k + alt.length, <<>>, {")"}, 1, <<")">>)
           IN IF alt.ok /\ path.ok
              THEN [ok |-> TRUE, group |-> alt.group, group2 |-> ASSETS_DIR \o path.group,
                    length |-> alt.length + path.length]
              ELSE NoSpan
      [] kind = "link" -> MatchSpan(s, k, LINK_OPEN, {"]"}, 1, LINK_CLOSE)
      [] kind = "tag" ->
           MatchSpan(s, k, <<"#">>, WHITESPACE \cup {"#", "[", "]", "(", ")"}, 1, <<>>)
      [] kind = "ref" -> MatchSpan(s, k, REF_OPEN, {")"}, 1, REF_CLOSE)
      [] kind = "embed" -> MatchSpan(s, k, EMBED_OPEN, {")"}, 1, <<")", "}", "}">>)

\* uuidToDbIdMap.get(blockUuid), 0 when there is no entry (or a null one).
ReferencedDbId(map, blockUuid) == IF MapHas(map, blockUuid) THEN MapGet(map, blockUuid) ELSE 0

\* A replacement that leaves every block reference and embed as it is.
ReplacementUnresolved(kind, s, k, m, map) ==
    CASE kind = "asset" ->
           <<"!", "[">> \o m.group \o <<"]", "(">> \o ASSETS_DIR \o m.group2 \o <<")">>
      [] kind \in {"link", "tag"} ->
           <<"#", "[", "[", "(", "(">> \o m.group \o <<")", ")", "]", "]">>
      [] kind \in {"ref", "embed"} -> Substring(s, k, k + m.length)

\* What the match m at index k of s is replaced with.
Replacement(kind, s, k, m, map) ==
    CASE kind = "asset" ->
           <<"!", "[">> \o m.group \o <<"]", "(">> \o ASSETS_DIR \o m.group2 \o <<")">>
      [] kind \in {"link", "tag"} ->
           <<"#", "[", "[", "(", "(">> \o m.group \o <<")", ")", "]", "]">>
      [] kind = "ref" ->
           IF ReferencedDbId(map, m.group) # 0
           THEN REF_OPEN \o ToDigits(ReferencedDbId(map, m.group)) \o REF_CLOSE
           ELSE Substring(s, k, k + m.length)
      [] kind = "embed" ->
           IF ReferencedDbId(map, m.group) # 0
           THEN EMBED_OPEN \o ToDigits(ReferencedDbId(map, m.group)) \o EMBED_CLOSE
           ELSE Substring(s, k, k + m.length)

\* content.replace(<expression with the g flag>, ...) from index k on: the
\* matches are taken left to right in s, each search starting where the
\* previous match ended.
RECURSIVE ReplaceFrom(_, _, _, _)
ReplaceFrom(kind, s, k, map) ==
    IF k >= Len(s) THEN <<>>
    ELSE LET m == MatchAt(kind, s, k)
         IN IF m.ok
            THEN Replacement(kind, s, k, m, map) \o ReplaceFrom(kind, s, k + m.length, map)
            ELSE <<s[k + 1]>> \o ReplaceFrom(kind, s, k + 1, map)

ReplaceAll(kind, s, map) == ReplaceFrom(kind, s, 0, map)

\* The content pass 2 computes for a block: the five replacements in turn.
LinkedContent(content, map) ==
    ReplaceAll("embed",
      ReplaceAll("ref",
        ReplaceAll("tag",
          ReplaceAll("link",
            ReplaceAll("asset", content, map), map), map), map), map)

---------------------------------------------------------------------------
(* main.ts: startImportProcess, with importPageBatch and                    *)
(* createBlocksRecursively of importer.ts, against the host                 *)

\* The batch size of startImportProcess.  The source has 50; the model runs
\* the same loop with a size that lets a few pages make several batches.
BATCH_SIZE == 2

\* A block without an id that references u, with a child that has an id.
RefFile ==
    [path |-> <<"p","a","g","e","s","/","r",".","m","d">>,
     content |->
        <<"-"," ","r"," ","(","(","u",")",")","\n",
          " "," ","-"," ","[","[","F","o","o","]","]"," ","#","t"," ",
          "(","(","u",")",")","\n",
          " "," "," "," ","i","d",":",":"," ","r">>]

\* A block with an image, a tag and a page link; the tag and the page are
\* named like the block ids u and v.
AssetFile ==
    [path |-> <<"p","a","g","e","s","/","s",".","m","d">>,
     content |->
        <<"-"," ","s"," ">> \o ImageText(<<"x">>, A_PNG) \o
        <<" ","#","u"," ">> \o LINK_OPEN \o <<"v">> \o LINK_CLOSE \o
        <<"\n"," "," ","i","d",":",":"," ","s">>]

\* A file of the folder that is not a note.
ConfigFile ==
    [path |-> <<"l","o","g","s","e","q","/","c",".","e","d","n">>,
     content |-> <<"{","}">>]

\* The folder the user points the plugin at.
Library == <<FooFile, RefFile, CycleFile, PropsFile, JournalFile, AssetFile, ConfigFile>>

Reverse(seq) == [k \in 1 .. Len(seq) |-> seq[Len(seq) + 1 - k]]

\* The subsequence of seq at the positions of pick, in order.
RECURSIVE SubList(_, _, _)
SubList(seq, pick, k) ==
    IF k > Len(seq) THEN <<>>
    ELSE (IF k \in pick THEN <<seq[k]>> ELSE <<>>) \o SubList(seq, pick, k + 1)

\* What read-directory may list: the files of any part of the library, in
\* the order of the library or in the opposite order.
Listings ==
    {SubList(lib, pick, 1) : lib \in {Library, Reverse(Library)},
                          pick \in SUBSET (1 .. Len(Library))}

\* orca.notify(type, message); the message is kept by its kind.
Notify(o, type, msg) ==
    [o EXCEPT !.notifications = Append(@, [type |-> type, msg |-> msg])]

\* What a host call may throw: an Error or another value.
Thrown == {"Error", "other"}

\* A catch block that swallows the error without a notification.
CatchSilent(o, error) == o

\* catch (error) { ... } of startImportProcess
Catch(o, error) ==
    Notify(o, "error", IF error = "Error" THEN "importFailed" ELSE "unknownError")

\* The host records a command it was given and what came of it: outcome is
\* "ok", "null" (no id came back) or "throw".  src names the source block the
\* command was issued for, <<page, node>>, node 0 for the page itself.
Logged(o, cmd, target, v, outcome, id, src) ==
    [o EXCEPT !.log = Append(@, [cmd |-> cmd, target |-> target, v |-> v,
                                 outcome |-> outcome, id |-> id, src |-> src])]

\* The host fails at most one command of a run.
Failed(o) == [o EXCEPT !.mayFail = FALSE]

\* core.editor.insertBlock that succeeds: the new block and its id.
NewDbId(o) == Len(o.blocks) + 1

InsertBlockOk(o, parent, v, type, src) ==
    Logged([o EXCEPT !.blocks = Append(@, [parent |-> parent, content |-> <<[t |-> "t", v |-> v]>>,
                                           type |-> type, properties |-> <<>>])],
           "insertBlock", parent, v, "ok", NewDbId(o), src)

\* allPages.slice(i, i + BATCH_SIZE)
Slice(seq, from, to) == SubSeq(seq, from + 1, IF to < Len(seq) THEN to ELSE Len(seq))

\* A frame of createBlocksRecursively: the list it loops over, the place k of
\* the block in work, the parent's DbId and the DbId of the block in work.
Frame(blocks, parentDbId) ==
    [logseqBlocks |-> blocks, k |-> 1, parentDbId |-> parentDbId, blockId |-> 0]

\* The loops that have run out return to their callers, which move on to
\* their next block.
RECURSIVE Unwind(_)
Unwind(frames) ==
    IF frames = <<>> THEN <<>>
    ELSE LET top == frames[Len(frames)]
             below == SubSeq(frames, 1, Len(frames) - 1)
         IN IF top.k <= Len(top.logseqBlocks) THEN frames
            ELSE IF below = <<>> THEN <<>>
            ELSE Unwind([below EXCEPT ![Len(below)].k = @ + 1])

\* The block a frame is working on.
BlockOf(heap, page, frame) == heap[page].nodes[frame.logseqBlocks[frame.k]]

\* A loop that moves on to the next block without a call for the children.
DescendFlat(heap, im) ==
    LET frames == Unwind([im.frames EXCEPT ![Len(im.frames)].k = @ + 1])
    IN IF frames = <<>>
       THEN [im EXCEPT !.frames = <<>>, !.pageNo = @ + 1]
       ELSE [im EXCEPT !.frames = frames]

\* The end of one pass of `for (const block of logseqBlocks)` for the block
\* in work: descend into its children, or move on.
Descend(heap, im) ==
    LET top == im.frames[Len(im.frames)]
        block == BlockOf(heap, im.page, top)
        frames == IF Len(block.children) > 0
                  THEN Append(im.frames, Frame(block.children, top.blockId))
                  ELSE Unwind([im.frames EXCEPT ![Len(im.frames)].k = @ + 1])
    IN IF frames = <<>>
       THEN [im EXCEPT !.frames = <<>>, !.pageNo = @ + 1]
       ELSE [im EXCEPT !.frames = frames]

\* The variables of the parser and the scanner machines that a run leaves alone.
others == <<fileIdx, ps, assetPathMap, scan, up>>

\* The plugin is loaded, the command was not invoked yet.  The path setting
\* is empty, blank or set; the folder holds some part of the library.
InitImport ==
    /\ pc = "start"
    /\ files = <<>>
    /\ fileIdx = 1
    /\ ps = IdleLocals
    /\ pageHeap = <<>>
    /\ graph = EmptyGraph
    /\ assetPathMap = <<>>
    /\ scan = IdleScan
    /\ up = IdleUpload
    /\ main = IdleMain
    /\ imp = IdleImp
    /\ orca \in {[IdleOrca EXCEPT !.logseqPath = c[1], !.directory = c[2], !.mayFail = TRUE] :
                    c \in ({<<>>, <<" ">>} \X {Library}) \cup ({<<"/", "g">>} \X Listings)}

\* startImportProcess up to its first await (lines 9-21).
StartImportProcess ==
    /\ pc = "start"
    /\ \/ /\ Trim(orca.logseqPath) = <<>>
          /\ orca' = Notify(orca, "warn", "noPath")
          /\ pc' = "returned"
       \/ /\ Trim(orca.logseqPath) # <<>>
          /\ orca' = Notify(orca, "info", "reading")
          /\ pc' = "readDirectory"
    /\ UNCHANGED <<files, pageHeap, graph, main, imp, others>>

\* file.name.endsWith(".md")
IsMd(file) == EndsWith(file.path, <<".", "m", "d">>)

\* read-directory returns (or fails), then lines 26-50: the checks, the
\* parse, and the set-up of the batch loop.
ReadDirectory ==
    /\ pc = "readDirectory"
    /\ LET mdFiles == SelectSeq(orca.directory, IsMd)
           parsed == ParseLogseqGraph(mdFiles)
           read(o, outcome) == Logged(o, "read-directory", 0, <<>>, outcome, 0, <<0, 0>>)
       IN \/ /\ orca.mayFail
             /\ \E error \in Thrown : orca' = Catch(read(Failed(orca), "throw"), error)
             /\ pc' = "returned"
             /\ UNCHANGED <<files, pageHeap, graph, main>>
          \/ /\ orca.mayFail
             /\ orca' = Notify(read(Failed(orca), "null"), "warn", "noFiles")
             /\ pc' = "returned"
             /\ UNCHANGED <<files, pageHeap, graph, main>>
          \/ /\ Len(orca.directory) = 0
             /\ orca' = Notify(read(orca, "ok"), "warn", "noFiles")
             /\ pc' = "returned"
             /\ UNCHANGED <<files, pageHeap, graph, main>>
          \/ /\ Len(orca.directory) > 0
             /\ Len(mdFiles) = 0
             /\ orca' = Notify(read(orca, "ok"), "warn", "noMarkdown")
             /\ pc' = "returned"
             /\ UNCHANGED <<files, pageHeap, graph, main>>
          \/ /\ Len(mdFiles) > 0
             /\ files' = mdFiles
             /\ graph' = parsed.graph
             /\ pageHeap' = parsed.pageHeap
             /\ main' = [allPages |-> MapValues(parsed.graph.pages), i |-> 0,
                         uuidToDbIdMap |-> <<>>, calls |-> <<>>]
             /\ orca' = Notify(Notify(read(orca, "ok"), "info", "found"), "info", "parsed")
             /\ pc' = "batchLoop"
    /\ UNCHANGED <<imp, others>>

\* The loop head with i < allPages.length: the slice, the call of
\* importPageBatch, and the opening of the group of pass 1.  calls is the
\* history of the batches handed to importPageBatch.
ImportPageBatchCall ==
    /\ pc = "batchLoop"
    /\ main.i < Len(main.allPages)
    /\ LET batch == Slice(main.allPages, main.i, main.i + BATCH_SIZE)
       IN /\ main' = [main EXCEPT !.calls = Append(@, batch)]
          /\ imp' = [pagesToImport |-> batch, pageNo |-> 1, page |-> 0,
                     frames |-> <<>>, entry |-> 1]
    /\ orca' = Logged(orca, "invokeGroup", 0, <<>>, "ok", 0, <<0, 0>>)
    /\ pc' = "pass1"
    /\ UNCHANGED <<files, pageHeap, graph, others>>

\* The loop head with i >= allPages.length: the success notification.
ImportFinished ==
    /\ pc = "batchLoop"
    /\ main.i >= Len(main.allPages)
    /\ orca' = Notify(orca, "success", "allDone")
    /\ pc' = "returned"
    /\ UNCHANGED <<files, pageHeap, graph, main, imp, others>>

\* Pass 1, the next page: insertBlock for the heading, then the call of
\* createBlocksRecursively(page.blocks, pageBlockId, uuidToDbIdMap).
InsertPage ==
    /\ pc = "pass1"
    /\ imp.pageNo <= Len(imp.pagesToImport)
    /\ LET page == imp.pagesToImport[imp.pageNo]
           name == pageHeap[page].name
           enter(id) ==
               LET frames == Unwind(<<Frame(pageHeap[page].blocks, id)>>)
               IN IF frames = <<>>
                  THEN [imp EXCEPT !.page = page, !.pageNo = @ + 1]
                  ELSE [imp EXCEPT !.page = page, !.frames = frames]
       IN \/ /\ orca' = InsertBlockOk(orca, 0, name, "heading", <<page, 0>>)
             /\ imp' = enter(NewDbId(orca))
             /\ pc' = IF enter(NewDbId(orca)).frames = <<>> THEN "pass1" ELSE "create"
          \/ /\ orca.mayFail
             /\ orca' = Logged(Failed(orca), "insertBlock", 0, name, "null", 0, <<page, 0>>)
             /\ imp' = enter(0)
             /\ pc' = IF enter(0).frames = <<>> THEN "pass1" ELSE "create"
          \/ /\ orca.mayFail
             /\ \E error \in Thrown :
                  orca' = Catch(Logged(Failed(orca), "insertBlock", 0, name, "throw", 0,
                                       <<page, 0>>), error)
             /\ pc' = "returned"
             /\ imp' = imp
    /\ UNCHANGED <<files, pageHeap, graph, main, others>>

\* A block that never enters uuidToDbIdMap.
SetUuidNever(map, block, blockId) == map

\* if (block.id) { uuidToDbIdMap.set(block.id, blockId); }
SetUuid(map, block, blockId) ==
    IF block.id # NULL THEN MapSet(map, block.id, blockId) ELSE map

\* createBlocksRecursively, lines 83-92: insertBlock as the last child of
\* the parent, and the entry of uuidToDbIdMap when the block has an id.  A
\* parent without a DbId cannot take a child: the host throws or gives no id.
InsertBlock ==
    /\ pc = "create"
    /\ LET top == imp.frames[Len(imp.frames)]
           block == BlockOf(pageHeap, imp.page, top)
           src == <<imp.page, top.logseqBlocks[top.k]>>
           set(id) == SetUuid(main.uuidToDbIdMap, block, id)
           held(id) == [imp EXCEPT !.frames[Len(imp.frames)].blockId = id]
           next(id) == IF Len(block.properties) > 0 THEN held(id)
                       ELSE Descend(pageHeap, held(id))
           nextpc(id) == IF Len(block.properties) > 0 THEN "setProperties"
                         ELSE IF next(id).frames = <<>> THEN "pass1" ELSE "create"
       IN \/ /\ top.parentDbId # 0
             /\ orca' = InsertBlockOk(orca, top.parentDbId, block.content, "text", src)
             /\ main' = [main EXCEPT !.uuidToDbIdMap = set(NewDbId(orca))]
             /\ imp' = next(NewDbId(orca))
             /\ pc' = nextpc(NewDbId(orca))
          \/ /\ top.parentDbId = 0 \/ orca.mayFail
             /\ orca' = Logged(Failed(orca), "insertBlock", top.parentDbId, block.content,
                               "null", 0, src)
             /\ main' = [main EXCEPT !.uuidToDbIdMap = set(0)]
             /\ imp' = next(0)
             /\ pc' = nextpc(0)
          \/ /\ top.parentDbId = 0 \/ orca.mayFail
             /\ \E error \in Thrown :
                  orca' = Catch(Logged(Failed(orca), "insertBlock", top.parentDbId,
                                       block.content, "throw", 0, src), error)
             /\ pc' = "returned"
             /\ UNCHANGED <<main, imp>>
    /\ UNCHANGED <<files, pageHeap, graph, others>>

\* createBlocksRecursively, lines 94-101: setProperties for a block with
\* properties, then the children.
SetProperties ==
    /\ pc = "setProperties"
    /\ LET top == imp.frames[Len(imp.frames)]
           block == BlockOf(pageHeap, imp.page, top)
           src == <<imp.page, top.logseqBlocks[top.k]>>
           next == Descend(pageHeap, imp)
       IN \/ /\ top.blockId # 0
             /\ orca' = Logged([orca EXCEPT !.blocks[top.blockId].properties = block.properties],
                               "setProperties", top.blockId, block.properties, "ok",
                               top.blockId, src)
             /\ imp' = next
             /\ pc' = IF next.frames = <<>> THEN "pass1" ELSE "create"
          \/ /\ top.blockId = 0
             /\ orca' = Logged(orca, "setProperties", 0, block.properties, "null", 0, src)
             /\ imp' = next
             /\ pc' = IF next.frames = <<>> THEN "pass1" ELSE "create"
          \/ /\ top.blockId = 0 \/ orca.mayFail
             /\ \E error \in Thrown :
                  orca' = Catch(Logged(Failed(orca), "setProperties", top.blockId,
                                       block.properties, "throw", 0, src), error)
             /\ pc' = "returned"
             /\ imp' = imp
    /\ UNCHANGED <<files, pageHeap, graph, main, others>>

\* Pass 2 run inside the group of pass 1: no second invokeGroup.
OpenPass2SameGroup ==
    /\ pc = "pass1"
    /\ imp.pageNo > Len(imp.pagesToImport)
    /\ orca' = orca
    /\ imp' = [imp EXCEPT !.entry = 1]
    /\ pc' = "pass2"
    /\ UNCHANGED <<files, pageHeap, graph, main, others>>

\* The group of pass 1 is done; the group of pass 2 opens.
OpenPass2 ==
    /\ pc = "pass1"
    /\ imp.pageNo > Len(imp.pagesToImport)
    /\ orca' = Logged(orca, "invokeGroup", 0, <<>>, "ok", 0, <<0, 0>>)
    /\ imp' = [imp EXCEPT !.entry = 1]
    /\ pc' = "pass2"
    /\ UNCHANGED <<files, pageHeap, graph, main, others>>

\* Pass 2, the next entry [uuid, dbId] of uuidToDbIdMap (lines 45-71).
LinkEntry ==
    /\ pc = "pass2"
    /\ imp.entry <= Len(main.uuidToDbIdMap)
    /\ LET uuid == main.uuidToDbIdMap[imp.entry][1]
           dbId == main.uuidToDbIdMap[imp.entry][2]
           logseqBlock == GetBlock(graph, pageHeap, uuid)
           content == LinkedContent(logseqBlock[1].content, main.uuidToDbIdMap)
           changed == logseqBlock # <<>> /\ content # logseqBlock[1].content
           ref == MapGet(graph.blocks, uuid)
           src == <<ref.page, ref.node>>
       IN \/ /\ ~changed
             /\ orca' = orca
             /\ imp' = [imp EXCEPT !.entry = @ + 1]
             /\ pc' = pc
          \/ /\ changed
             /\ dbId # 0
             /\ orca' = Logged([orca EXCEPT !.blocks[dbId].content = <<[t |-> "t", v |-> content]>>],
                               "updateBlock", dbId, content, "ok", dbId, src)
             /\ imp' = [imp EXCEPT !.entry = @ + 1]
             /\ pc' = pc
          \/ /\ changed
             /\ dbId = 0
             /\ orca' = Logged(orca, "updateBlock", 0, content, "null", 0, src)
             /\ imp' = [imp EXCEPT !.entry = @ + 1]
             /\ pc' = pc
          \/ /\ changed
             /\ dbId = 0 \/ orca.mayFail
             /\ \E error \in Thrown :
                  orca' = Catch(Logged(Failed(orca), "updateBlock", dbId, content, "throw",
                                       0, src), error)
             /\ imp' = imp
             /\ pc' = "returned"
    /\ UNCHANGED <<files, pageHeap, graph, main, others>>

\* importPageBatch returns; the progress notification and i += BATCH_SIZE.
ImportPageBatchReturn ==
    /\ pc = "pass2"
    /\ imp.entry > Len(main.uuidToDbIdMap)
    /\ main' = [main EXCEPT !.i = @ + BATCH_SIZE]
    /\ orca' = Notify(orca, "info", "progress")
    /\ pc' = "batchLoop"
    /\ UNCHANGED <<files, pageHeap, graph, imp, others>>

NextImport ==
    \/ StartImportProcess
    \/ ReadDirectory
    \/ ImportPageBatchCall
    \/ ImportFinished
    \/ InsertPage
    \/ InsertBlock
    \/ SetProperties
    \/ OpenPass2
    \/ LinkEntry
    \/ ImportPageBatchReturn

SpecImport == InitImport /\ [][NextImport]_vars

---------------------------------------------------------------------------
(* importer.ts: preUploadAssetsAndGetPathMap and the importPageBatch that   *)
(* calls it, against the folder handle and the host                         *)

ASSETS_PREFIX == <<".", ".", "/">> \o ASSETS_DIR

\* match[3] of the matches of block.content.matchAll(new RegExp(ATTACHMENT_REGEX,
\* 'g')), left to right: each search starts where the previous match ended.
RECURSIVE LocalPaths(_)
LocalPaths(content) ==
    LET m == MatchAttachment(content)
    IN IF ~m.ok THEN <<>>
       ELSE <<m.localPath>> \o LocalPaths(SubstringFrom(content, m.index + m.length))

\* Set.prototype.add on a set kept in insertion order.
SetAdd(set, x) == IF \E k \in 1 .. Len(set) : set[k] = x THEN set ELSE Append(set, x)

\* if (localPath.startsWith('../assets/')) allAssetPaths.add(localPath), for
\* the paths of one block.
RECURSIVE AddAssetPaths(_, _)
AddAssetPaths(set, paths) ==
    IF paths = <<>> THEN set
    ELSE AddAssetPaths(IF StartsWith(paths[1], ASSETS_PREFIX) THEN SetAdd(set, paths[1]) ELSE set,
                       Tail(paths))

\* collectPaths(page.blocks): the blocks of a page in the order of the walk.
RECURSIVE CollectPaths(_, _, _)
CollectPaths(set, page, order) ==
    IF order = <<>> THEN set
    ELSE CollectPaths(AddAssetPaths(set, LocalPaths(page.nodes[order[1]].content)),
                      page, Tail(order))

\* for (const page of pagesToImport) collectPaths(page.blocks)
RECURSIVE CollectAll(_, _, _)
CollectAll(set, heap, pages) ==
    IF pages = <<>> THEN set
    ELSE CollectAll(CollectPaths(set, heap[pages[1]],
                                 PreOrder(heap[pages[1]].nodes, heap[pages[1]].blocks)),
                    heap, Tail(pages))

\* originalPath.substring(10)
RelativePath(originalPath) == SubstringFrom(originalPath, 10)

\* The path the asset store gives to an uploaded file.
StoredPath(file) == ASSETS_DIR \o file

\* What upload-assets returns for a list of files of which those at the
\* places of `bad` fail: the uploaded files and the failed ones, each in the
\* order of the list.
UploadResult(filesToUpload, bad) ==
    LET good == SelectSeq([k \in 1 .. Len(filesToUpload) |-> k], LAMBDA k : k \notin bad)
        lost == SelectSeq([k \in 1 .. Len(filesToUpload) |-> k], LAMBDA k : k \in bad)
    IN [uploaded |-> [j \in 1 .. Len(good) |-> [path |-> StoredPath(filesToUpload[good[j]])]],
        failed |-> [j \in 1 .. Len(lost) |-> filesToUpload[lost[j]]]]

\* for (let i = 0; i < result.uploaded.length; i++)
\*     assetPathMap.set(pathsToUpload[i], result.uploaded[i].path)
RECURSIVE SetUploaded(_, _, _, _, _)
SetUploaded(map, filesToUpload, pathsToUpload, uploaded, i) ==
    IF i > Len(uploaded) THEN map
    ELSE SetUploaded(MapSet(map, pathsToUpload[i], uploaded[i].path),
                     filesToUpload, pathsToUpload, uploaded, i + 1)

\* convertLogseqBlocksToReprs(logseqBlocks, graph, assetPathMap, currentIndent)
RECURSIVE ConvertLogseqBlocksToReprs(_, _, _, _, _, _)
ConvertLogseqBlocksToReprs(page, refs, g, heap, apm, currentIndent) ==
    IF refs = <<>> THEN <<>>
    ELSE LET block == page.nodes[refs[1]]
             contentFragments == ParseContentToFragments(block.content, g, heap, apm)
             repr == [type |-> "text",
                      content |-> IF Len(contentFragments) > 0 THEN contentFragments
                                  ELSE <<[t |-> "t", v |-> <<>>]>>,
                      indent |-> currentIndent,
                      properties |-> block.properties]
         IN <<repr>>
            \o ConvertLogseqBlocksToReprs(page, block.children, g, heap, apm, currentIndent + 1)
            \o ConvertLogseqBlocksToReprs(page, Tail(refs), g, heap, apm, currentIndent)

\* core.editor.batchInsertReprs under the page block: the reprs become
\* blocks, each below the last block of the indent above it.
RECURSIVE InsertReprs(_, _, _, _)
InsertReprs(blocks, reprs, pageBlockId, stack) ==
    IF reprs = <<>> THEN blocks
    ELSE LET repr == reprs[1]
             parent == IF repr.indent = 0 THEN pageBlockId ELSE stack[repr.indent]
             block == [parent |-> parent, content |-> repr.content, type |-> repr.type,
                       properties |-> repr.properties]
         IN InsertReprs(Append(blocks, block), Tail(reprs), pageBlockId,
                        Append(SubSeq(stack, 1, repr.indent), Len(blocks) + 1))

\* A block with two attachments, one of them missing from the assets folder,
\* and below it a block with the image of s.md and a link that is no asset.
DocsFile ==
    [path |-> <<"p","a","g","e","s","/","d",".","m","d">>,
     content |->
        <<"-"," ","d"," ">> \o LinkText(<<"d">>, D_PDF) \o <<" ">> \o ImageText(<<"y">>, M_PNG)
        \o <<"\n"," "," ","-"," ","e"," ">> \o ImageText(<<"x">>, A_PNG) \o <<" ">>
        \o LinkText(<<"w">>, <<"b", ".", "p", "n", "g">>)]

UploadCorpus == <<FooFile, AssetFile, DocsFile, PropsFile>>

\* The files that an assets folder may hold.
AssetFiles == {RelativePath(A_PNG), RelativePath(D_PDF), RelativePath(M_PNG)}

\* The folder the user picked: without an assets folder, or with one that
\* holds some of the files.
LogseqFolders ==
    {[hasAssets |-> FALSE, assets |-> {}]}
        \cup {[hasAssets |-> TRUE, assets |-> a] : a \in SUBSET AssetFiles}

\* importPageBatch(pagesToImport, graph, logseqFolder) is about to be called
\* with the pages of some files of the corpus.
InitUpload ==
    /\ pc = "importPageBatch"
    /\ files \in {SubList(UploadCorpus, pick, 1) : pick \in SUBSET (1 .. Len(UploadCorpus))}
    /\ fileIdx = Len(files) + 1
    /\ ps = IdleLocals
    /\ pageHeap = ParseLogseqGraph(files).pageHeap
    /\ graph = ParseLogseqGraph(files).graph
    /\ assetPathMap = <<>>
    /\ scan = IdleScan
    /\ main = IdleMain
    /\ imp = [IdleImp EXCEPT !.pagesToImport = MapValues(ParseLogseqGraph(files).graph.pages)]
    /\ orca \in {[IdleOrca EXCEPT !.mayFail = f] : f \in BOOLEAN}
    /\ up \in {[IdleUpload EXCEPT !.logseqFolder = d] : d \in LogseqFolders}

\* importPageBatch up to the first await of preUploadAssetsAndGetPathMap
\* (lines 332-333, 118-139): the first notification and the collection of
\* the asset paths.
PreUploadCall ==
    /\ pc = "importPageBatch"
    /\ LET allAssetPaths == CollectAll(<<>>, pageHeap, imp.pagesToImport)
       IN /\ up' = [up EXCEPT !.allAssetPaths = allAssetPaths, !.k = 1,
                              !.filesToUpload = <<>>, !.pathsToUpload = <<>>]
          /\ pc' = IF Len(allAssetPaths) = 0 THEN "preUploadReturned" ELSE "getDirectoryHandle"
    /\ orca' = Notify(orca, "info", "analysing")
    /\ assetPathMap' = <<>>
    /\ UNCHANGED <<files, fileIdx, ps, pageHeap, graph, scan, main, imp>>

\* A lookup of the assets folder whose failure is not caught: it ends the
\* call of importPageBatch.
GetDirectoryHandleUncaught ==
    /\ pc = "getDirectoryHandle"
    /\ \/ /\ up.logseqFolder.hasAssets
          /\ orca' = Logged(orca, "getDirectoryHandle", 0, ASSETS_DIR, "ok", 0, <<0, 0>>)
          /\ pc' = "getFileHandle"
       \/ /\ ~up.logseqFolder.hasAssets
          /\ orca' = Logged(orca, "getDirectoryHandle", 0, ASSETS_DIR, "throw", 0, <<0, 0>>)
          /\ pc' = "batchDone"
    /\ UNCHANGED <<files, fileIdx, ps, pageHeap, graph, assetPathMap, scan, main, imp, up>>

\* logseqFolder.getDirectoryHandle('assets') (line 142), and the outer catch
\* when there is no such folder (lines 172-175).
GetDirectoryHandle ==
    /\ pc = "getDirectoryHandle"
    /\ \/ /\ up.logseqFolder.hasAssets
          /\ orca' = Logged(orca, "getDirectoryHandle", 0, ASSETS_DIR, "ok", 0, <<0, 0>>)
          /\ pc' = "getFileHandle"
       \/ /\ ~up.logseqFolder.hasAssets
          /\ orca' = Notify(Logged(orca, "getDirectoryHandle", 0, ASSETS_DIR, "throw", 0, <<0, 0>>),
                            "error", "noAssetsFolder")
          /\ pc' = "preUploadReturned"
    /\ UNCHANGED <<files, fileIdx, ps, pageHeap, graph, assetPathMap, scan, main, imp, up>>

\* One pass of `for (const originalPath of allAssetPaths)` (lines 146-156).
GetFileHandle ==
    /\ pc = "getFileHandle"
    /\ up.k <= Len(up.allAssetPaths)
    /\ LET originalPath == up.allAssetPaths[up.k]
           relativePath == RelativePath(originalPath)
       IN \/ /\ relativePath \in up.logseqFolder.assets
             /\ up' = [up EXCEPT !.filesToUpload = Append(@, relativePath),
                                 !.pathsToUpload = Append(@, originalPath),
                                 !.k = @ + 1]
             /\ orca' = Logged(orca, "getFileHandle", 0, relativePath, "ok", 0, <<0, 0>>)
          \/ /\ relativePath \notin up.logseqFolder.assets
             /\ up' = [up EXCEPT !.k = @ + 1]
             /\ orca' = Logged(orca, "getFileHandle", 0, relativePath, "throw", 0, <<0, 0>>)
    /\ UNCHANGED <<pc, files, fileIdx, ps, pageHeap, graph, assetPathMap, scan, main, imp>>

\* Lines 158-171 and the outer catch: the upload of the files that were read
\* and the entries of the map.
UploadAssets ==
    /\ pc = "getFileHandle"
    /\ up.k > Len(up.allAssetPaths)
    /\ \/ /\ Len(up.filesToUpload) = 0
          /\ UNCHANGED <<orca, assetPathMap>>
       \/ /\ Len(up.filesToUpload) > 0
          /\ \E bad \in SUBSET (1 .. Len(up.filesToUpload)) :
               LET result == UploadResult(up.filesToUpload, bad)
                   called == Logged(Notify(orca, "info", "uploading"), "upload-assets", 0,
                                    up.filesToUpload, "ok", 0, <<0, 0>>)
               IN /\ assetPathMap' = SetUploaded(assetPathMap, up.filesToUpload,
                                                 up.pathsToUpload, result.uploaded, 1)
                  /\ orca' = IF Len(result.failed) > 0
                             THEN Notify(called, "warn", "uploadFailed") ELSE called
       \/ /\ Len(up.filesToUpload) > 0
          /\ orca' = Logged(Notify(orca, "info", "uploading"), "upload-assets", 0,
                            up.filesToUpload, "null", 0, <<0, 0>>)
          /\ UNCHANGED assetPathMap
       \/ /\ Len(up.filesToUpload) > 0
          /\ orca' = Notify(Logged(Notify(orca, "info", "uploading"), "upload-assets", 0,
                                   up.filesToUpload, "throw", 0, <<0, 0>>),
                            "error", "noAssetsFolder")
          /\ UNCHANGED assetPathMap
    /\ pc' = "preUploadReturned"
    /\ UNCHANGED <<files, fileIdx, ps, pageHeap, graph, scan, main, imp, up>>

\* preUploadAssetsAndGetPathMap has returned: the success notification and
\* the opening of the group (lines 334-336).
PreUploadReturn ==
    /\ pc = "preUploadReturned"
    /\ orca' = Logged(Notify(orca, "success", "assetsDone"), "invokeGroup", 0, <<>>, "ok", 0,
                      <<0, 0>>)
    /\ imp' = [imp EXCEPT !.pageNo = 1]
    /\ pc' = "pages"
    /\ UNCHANGED <<files, fileIdx, ps, pageHeap, graph, assetPathMap, scan, main, up>>

\* One pass of `for (const page of pagesToImport)` (lines 338-373): the
\* heading, its properties, get-block and batchInsertReprs; a page whose
\* heading gets no id is reported and the loop goes on.
ImportPage ==
    /\ pc = "pages"
    /\ imp.pageNo <= Len(imp.pagesToImport)
    /\ LET ref == imp.pagesToImport[imp.pageNo]
           page == pageHeap[ref]
           heading == InsertBlockOk(orca, 0, page.name, "heading", <<ref, 0>>)
           pageBlockId == NewDbId(orca)
           withProperties ==
               IF Len(page.properties) > 0
               THEN Logged([heading EXCEPT !.blocks[pageBlockId].properties = page.properties],
                           "setProperties", pageBlockId, page.properties, "ok", pageBlockId,
                           <<ref, 0>>)
               ELSE heading
           fetched == Logged(withProperties, "get-block", pageBlockId, <<>>, "ok", pageBlockId,
                             <<ref, 0>>)
           blockReprs == ConvertLogseqBlocksToReprs(page, page.blocks, graph, pageHeap,
                                                    assetPathMap, 0)
       IN \/ orca' = IF Len(page.blocks) > 0
                     THEN Logged([fetched EXCEPT !.blocks =
                                     InsertReprs(@, blockReprs, pageBlockId, <<>>)],
                                 "batchInsertReprs", pageBlockId, blockReprs, "ok", pageBlockId,
                                 <<ref, 0>>)
                     ELSE fetched
          \/ /\ orca.mayFail
             /\ orca' = Notify(Logged(Failed(orca), "insertBlock", 0, page.name, "null", 0,
                                      <<ref, 0>>), "error", "pageFailed")
    /\ imp' = [imp EXCEPT !.pageNo = @ + 1]
    /\ UNCHANGED <<pc, files, fileIdx, ps, pageHeap, graph, assetPathMap, scan, main, up>>

\* The group is done and importPageBatch returns.
ImportPagesReturn ==
    /\ pc = "pages"
    /\ imp.pageNo > Len(imp.pagesToImport)
    /\ pc' = "batchDone"
    /\ UNCHANGED <<files, fileIdx, ps, pageHeap, graph, assetPathMap, scan, main, imp, orca, up>>

NextUpload ==
    \/ PreUploadCall
    \/ GetDirectoryHandle
    \/ GetFileHandle
    \/ UploadAssets
    \/ PreUploadReturn
    \/ ImportPage
    \/ ImportPagesReturn

SpecUpload == InitUpload /\ [][NextUpload]_vars

---------------------------------------------------------------------------
(* importer.ts.bak: the importPageBatch that fetches the blocks of the      *)
(* batch for pass 2, under the loop of startImportProcess                   *)

\* `continue` of createBlocksRecursively when the parent block is not in
\* orca.state.blocks: the block in work and its children are passed over.
Skip(im) ==
    LET frames == Unwind([im.frames EXCEPT ![Len(im.frames)].k = @ + 1])
    IN IF frames = <<>>
       THEN [im EXCEPT !.frames = <<>>, !.pageNo = @ + 1]
       ELSE [im EXCEPT !.frames = frames]

\* The end of one pass of the loop of createBlocksRecursively: the call for
\* the children, whose every pass is a `continue` when the block got no id.
DescendChecked(heap, im) ==
    IF im.frames[Len(im.frames)].blockId = 0 THEN Skip(im) ELSE Descend(heap, im)

\* The loop head of startImportProcess with i < allPages.length, and
\* importPageBatch up to the first insertBlock (lines 11-15).
ImportPageBatchCallBak ==
    /\ pc = "batchLoop"
    /\ main.i < Len(main.allPages)
    /\ LET batch == Slice(main.allPages, main.i, main.i + BATCH_SIZE)
       IN /\ main' = [main EXCEPT !.calls = Append(@, batch)]
          /\ imp' = [pagesToImport |-> batch, pageNo |-> 1, page |-> 0,
                     frames |-> <<>>, entry |-> 1,
                     currentBatchDbIds |-> <<>>, blocksToUpdate |-> <<>>]
    /\ orca' = Logged(orca, "invokeGroup", 0, <<>>, "ok", 0, <<0, 0>>)
    /\ pc' = "pass1"
    /\ UNCHANGED <<files, pageHeap, graph, others>>

\* Pass 1, the next page (lines 16-25): the heading, currentBatchDbIds.add,
\* and the call of createBlocksRecursively, which passes over every block
\* when the heading got no id.
InsertPageBak ==
    /\ pc = "pass1"
    /\ imp.pageNo <= Len(imp.pagesToImport)
    /\ LET page == imp.pagesToImport[imp.pageNo]
           name == pageHeap[page].name
           enter(id) ==
               LET added == [imp EXCEPT !.page = page,
                                        !.currentBatchDbIds = SetAdd(@, id)]
                   frames == IF id = 0 THEN <<>>
                             ELSE Unwind(<<Frame(pageHeap[page].blocks, id)>>)
               IN IF frames = <<>>
                  THEN [added EXCEPT !.pageNo = @ + 1]
                  ELSE [added EXCEPT !.frames = frames]
       IN \/ /\ orca' = InsertBlockOk(orca, 0, name, "heading", <<page, 0>>)
             /\ imp' = enter(NewDbId(orca))
             /\ pc' = IF enter(NewDbId(orca)).frames = <<>> THEN "pass1" ELSE "create"
          \/ /\ orca.mayFail
             /\ orca' = Logged(Failed(orca), "insertBlock", 0, name, "null", 0, <<page, 0>>)
             /\ imp' = enter(0)
             /\ pc' = "pass1"
          \/ /\ orca.mayFail
             /\ \E error \in Thrown :
                  orca' = Catch(Logged(Failed(orca), "insertBlock", 0, name, "throw", 0,
                                       <<page, 0>>), error)
             /\ pc' = "returned"
             /\ imp' = imp
    /\ UNCHANGED <<files, pageHeap, graph, main, others>>

\* createBlocksRecursively, lines 84-98: insertBlock under the parent block,
\* batchDbIdSet.add, and the entry of uuidToDbIdMap.  The frames hold blocks
\* whose parent has an id: the others were passed over.
InsertBlockBak ==
    /\ pc = "create"
    /\ LET top == imp.frames[Len(imp.frames)]
           block == BlockOf(pageHeap, imp.page, top)
           src == <<imp.page, top.logseqBlocks[top.k]>>
           held(id) == [imp EXCEPT !.frames[Len(imp.frames)].blockId = id,
                                   !.currentBatchDbIds = SetAdd(@, id)]
           next(id) == IF Len(block.properties) > 0 THEN held(id)
                       ELSE DescendChecked(pageHeap, held(id))
           nextpc(id) == IF Len(block.properties) > 0 THEN "setProperties"
                         ELSE IF next(id).frames = <<>> THEN "pass1" ELSE "create"
       IN \/ /\ orca' = InsertBlockOk(orca, top.parentDbId, block.content, "text", src)
             /\ main' = [main EXCEPT !.uuidToDbIdMap = SetUuid(@, block, NewDbId(orca))]
             /\ imp' = next(NewDbId(orca))
             /\ pc' = nextpc(NewDbId(orca))
          \/ /\ orca.mayFail
             /\ orca' = Logged(Failed(orca), "insertBlock", top.parentDbId, block.content,
                               "null", 0, src)
             /\ main' = [main EXCEPT !.uuidToDbIdMap = SetUuid(@, block, 0)]
             /\ imp' = next(0)
             /\ pc' = nextpc(0)
          \/ /\ orca.mayFail
             /\ \E error \in Thrown :
                  orca' = Catch(Logged(Failed(orca), "insertBlock", top.parentDbId,
                                       block.content, "throw", 0, src), error)
             /\ pc' = "returned"
             /\ UNCHANGED <<main, imp>>
    /\ UNCHANGED <<files, pageHeap, graph, others>>

\* createBlocksRecursively, lines 100-107: setProperties, then the children.
SetPropertiesBak ==
    /\ pc = "setProperties"
    /\ LET top == imp.frames[Len(imp.frames)]
           block == BlockOf(pageHeap, imp.page, top)
           src == <<imp.page, top.logseqBlocks[top.k]>>
           next == DescendChecked(pageHeap, imp)
       IN \/ /\ top.blockId # 0
             /\ orca' = Logged([orca EXCEPT !.blocks[top.blockId].properties = block.properties],
                               "setProperties", top.blockId, block.properties, "ok",
                               top.blockId, src)
             /\ imp' = next
             /\ pc' = IF next.frames = <<>> THEN "pass1" ELSE "create"
          \/ /\ top.blockId = 0
             /\ orca' = Logged(orca, "setProperties", 0, block.properties, "null", 0, src)
             /\ imp' = next
             /\ pc' = IF next.frames = <<>> THEN "pass1" ELSE "create"
          \/ /\ top.blockId = 0 \/ orca.mayFail
             /\ \E error \in Thrown :
                  orca' = Catch(Logged(Failed(orca), "setProperties", top.blockId,
                                       block.properties, "throw", 0, src), error)
             /\ pc' = "returned"
             /\ imp' = imp
    /\ UNCHANGED <<files, pageHeap, graph, main, others>>

\* importPageBatch returns to the loop of startImportProcess: the progress
\* notification and i += BATCH_SIZE (main.ts 53-55).
BackInLoop(m) == [m EXCEPT !.i = @ + BATCH_SIZE]

\* Lines 30-42: get-blocks for the ids of the batch.  A list comes back and
\* the group of pass 2 opens, or something that is no list comes back and
\* importPageBatch notifies and returns.
GetBlocks ==
    /\ pc = "pass1"
    /\ imp.pageNo > Len(imp.pagesToImport)
    /\ \/ /\ orca' = Logged(Logged(orca, "get-blocks", 0, imp.currentBatchDbIds, "ok", 0,
                                   <<0, 0>>),
                            "invokeGroup", 0, <<>>, "ok", 0, <<0, 0>>)
          /\ imp' = [imp EXCEPT !.blocksToUpdate = imp.currentBatchDbIds, !.entry = 1]
          /\ main' = main
          /\ pc' = "pass2"
       \/ /\ orca.mayFail
          /\ orca' = Notify(Notify(Logged(Failed(orca), "get-blocks", 0, imp.currentBatchDbIds,
                                          "null", 0, <<0, 0>>),
                                   "error", "linkAborted"),
                            "info", "progress")
          /\ imp' = imp
          /\ main' = BackInLoop(main)
          /\ pc' = "batchLoop"
       \/ /\ orca.mayFail
          /\ \E error \in Thrown :
               orca' = Catch(Logged(Failed(orca), "get-blocks", 0, imp.currentBatchDbIds,
                                    "throw", 0, <<0, 0>>), error)
          /\ imp' = imp
          /\ main' = main
          /\ pc' = "returned"
    /\ UNCHANGED <<files, pageHeap, graph, others>>

\* Pass 2, the next fetched block (lines 46-71): the rewrite of block.text
\* and updateBlock when it differs.
LinkBlock ==
    /\ pc = "pass2"
    /\ imp.entry <= Len(imp.blocksToUpdate)
    /\ LET id == imp.blocksToUpdate[imp.entry]
           originalContent == orca.blocks[id].content[1].v
           newContent == LinkedContent(originalContent, main.uuidToDbIdMap)
       IN \/ /\ IF id = 0 THEN TRUE ELSE newContent = originalContent
             /\ orca' = orca
             /\ imp' = [imp EXCEPT !.entry = @ + 1]
             /\ pc' = pc
          \/ /\ id # 0
             /\ newContent # originalContent
             /\ orca' = Logged([orca EXCEPT !.blocks[id].content = <<[t |-> "t", v |-> newContent]>>],
                               "updateBlock", id, newContent, "ok", id, <<0, 0>>)
             /\ imp' = [imp EXCEPT !.entry = @ + 1]
             /\ pc' = pc
          \/ /\ id # 0
             /\ newContent # originalContent
             /\ orca.mayFail
             /\ \E error \in Thrown :
                  orca' = Catch(Logged(Failed(orca), "updateBlock", id, newContent, "throw",
                                       0, <<0, 0>>), error)
             /\ imp' = imp
             /\ pc' = "returned"
    /\ UNCHANGED <<files, pageHeap, graph, main, others>>

\* Pass 2 is over and importPageBatch returns.
ImportPageBatchReturnBak ==
    /\ pc = "pass2"
    /\ imp.entry > Len(imp.blocksToUpdate)
    /\ main' = BackInLoop(main)
    /\ orca' = Notify(orca, "info", "progress")
    /\ pc' = "batchLoop"
    /\ UNCHANGED <<files, pageHeap, graph, imp, others>>

NextBak ==
    \/ StartImportProcess
    \/ ReadDirectory
    \/ ImportPageBatchCallBak
    \/ ImportFinished
    \/ InsertPageBak
    \/ InsertBlockBak
    \/ SetPropertiesBak
    \/ GetBlocks
    \/ LinkBlock
    \/ ImportPageBatchReturnBak

SpecBak == InitImport /\ [][NextBak]_vars

---------------------------------------------------------------------------
(* Properties of the parser *)

\* The indentation widths of the block lines of a text, in document order,
\* read off the text itself.
DocIndents(content) ==
    LET ls == Split(content, "\n")
        RECURSIVE Pick(_)
        Pick(k) ==
            IF k > Len(ls) THEN <<>>
            ELSE IF StartsWith(Trim(ls[k]), <<"-", " ">>)
                 THEN <<LeadingSpaces(ls[k])>> \o Pick(k + 1)
                 ELSE Pick(k + 1)
    IN Pick(1)

\* The places of a page's tree that hold a reference to block k: 0 stands for
\* page.blocks, j for the children of block j.
HoldersOf(page, k) ==
    {j \in 1 .. Len(page.nodes) :
        \E c \in 1 .. Len(page.nodes[j].children) : page.nodes[j].children[c] = k}
    \cup (IF \E c \in 1 .. Len(page.blocks) : page.blocks[c] = k THEN {0} ELSE {})

\* A list of block references is in document order, without repeats.
InDocOrder(refs) == \A a, b \in 1 .. Len(refs) : a < b => refs[a] < refs[b]

\* The block at document position k hangs under the nearest preceding block
\* of strictly smaller indentation, or under the page when there is none.
NearestShallower(ind, k) ==
    LET cands == {j \in 1 .. (k - 1) : ind[j] < ind[k]}
    IN IF cands = {} THEN 0 ELSE Max(cands)

TreeMatchesIndentation(file, page) ==
    LET ind == DocIndents(file.content)
    IN /\ Len(page.nodes) = Len(ind)
       /\ \A k \in 1 .. Len(ind) :
            /\ HoldersOf(page, k) = {NearestShallower(ind, k)}
            /\ \A j \in HoldersOf(page, k) \ {0} : ind[j] # ind[k]
       /\ InDocOrder(page.blocks)
       /\ \A j \in 1 .. Len(page.nodes) : InDocOrder(page.nodes[j].children)

\* C1: for every file, parseLogseqFile returns a page in which the block at
\* document position k is a child of the nearest preceding block whose level
\* is strictly less than its own, a top-level block when there is none; a
\* block never hangs under a block of its own level; page.blocks and every
\* children list are in document order.
C1_NearestShallowerParent ==
    \A p \in 1 .. Len(pageHeap) : TreeMatchesIndentation(files[p], pageHeap[p])

\* A file with indentations 0, 3, 1, 1 has been parsed: the third block closes
\* the second and the fourth closes the third, all three under the first.
C1_Witness ==
    /\ pc = "graphDone"
    /\ Len(pageHeap) = 1
    /\ DocIndents(files[1].content) = <<0, 3, 1, 1>>
    /\ pageHeap[1].blocks = <<1>>
    /\ pageHeap[1].nodes[1].children = <<2, 3, 4>>

\* C2: parseLogseqFile keeps no state between calls: two calls on the same
\* file return equal pages (name, properties, block tree with ids, contents,
\* properties and children), whatever was parsed in between.
C2_SameFileSamePage ==
    \A i, j \in 1 .. Len(pageHeap) : files[i] = files[j] => pageHeap[i] = pageHeap[j]

\* The same file was parsed first and third, another file in between, and the
\* page has page properties and blocks.
C2_Witness ==
    /\ pc = "graphDone"
    /\ Len(files) = 3
    /\ files[1] = files[3]
    /\ files[2] # files[1]
    /\ pageHeap[3].properties # <<>>
    /\ pageHeap[3].nodes # <<>>
    /\ pageHeap[2].nodes # <<>>

---------------------------------------------------------------------------
(* Properties of the scanner *)

\* The raw text holds no inline syntax, read off the text itself: no "(("
\* that a later "))" closes (this covers the embed as well), no "[[" that a
\* later "]]" closes, no "#" followed by a tag character, and no "[" that a
\* later "](" and then a ")" complete to a link or an image.
PlainText(s) ==
    \A k \in 0 .. (Len(s) - 1) :
        /\ ~(OccursAt(s, REF_OPEN, k) /\ \E e \in (k + 2) .. Len(s) : OccursAt(s, REF_CLOSE, e))
        /\ ~(OccursAt(s, LINK_OPEN, k) /\ \E e \in (k + 2) .. Len(s) : OccursAt(s, LINK_CLOSE, e))
        /\ ~(/\ s[k + 1] = "#"
             /\ k + 2 <= Len(s)
             /\ ~IsSpace(s[k + 2])
             /\ s[k + 2] \notin {"#", "[", "]"})
        /\ ~(/\ s[k + 1] = "["
             /\ \E e \in (k + 1) .. Len(s) :
                  /\ OccursAt(s, <<"]", "(">>, e)
                  /\ \E f \in (e + 2) .. (Len(s) - 1) : s[f + 1] = ")")

\* C3: a raw text without inline syntax comes back as exactly one plain-text
\* fragment whose value is the text.
C3_PlainTextOneFragment ==
    (pc = "scanDone" /\ PlainText(scan.content))
        => scan.fragments = <<[t |-> "t", v |-> scan.content]>>

\* The text `(([a]#`, made of openers that never close, was scanned.
C3_Witness ==
    /\ pc = "scanDone"
    /\ scan.content = <<"(", "(", "[", "a", "]", "#">>
    /\ PlainText(scan.content)
    /\ Len(scan.fragments) = 1

\* The ids of the UUID index.
IndexedIds == {graph.blocks[e][1] : e \in 1 .. Len(graph.blocks)}

\* The fragments the scan of "T((id))" or "T{{embed ((id))}}" is said to return.
TextThenReference(T, id) ==
    <<[t |-> "t", v |-> T],
      [t |-> "r", v |-> GetBlock(graph, pageHeap, id)[1].content, q |-> id]>>

\* The split of the scanned text after n characters is a text T and a
\* reference or an embed of an indexed id.
IsTextThenReference(n, id) ==
    /\ id \in IndexedIds
    /\ SubstringFrom(scan.content, n) \in {RefText(id), EmbedText(id)}

SafeText(T) == T # <<>> /\ \A k \in 1 .. Len(T) : T[k] \notin {"#", "[", "("}

ReferenceAtCursor(st) ==
    LET rest == SubstringFrom(st.content, st.i)
        ends(close) == {e \in 0 .. Len(rest) : OccursAt(rest, close, e)}
    IN IF StartsWith(rest, EMBED_OPEN) /\ ends(EMBED_CLOSE) # {}
       THEN <<Substring(rest, 10, Min(ends(EMBED_CLOSE))), Min(ends(EMBED_CLOSE)) + 4>>
       ELSE IF StartsWith(rest, REF_OPEN) /\ ends(REF_CLOSE) # {}
       THEN <<Substring(rest, 2, Min(ends(REF_CLOSE))), Min(ends(REF_CLOSE)) + 2>>
       ELSE <<>>

\* The placeholder of an id that the index lacks.
Placeholder(id) == [t |-> "r", v |-> BLOCK_NOT_FOUND \o id, q |-> id]

IsMappedAttachment(content, e) ==
    \E bang \in {<<>>, <<"!">>} : \E attr \in {<<>>, AttrText} :
        LET path == assetPathMap[e][1]
            head == bang \o <<"[">>
            tail == <<"]", "(">> \o path \o <<")">> \o attr
            alt == Substring(content, Len(head), Len(content) - Len(tail))
        IN /\ Len(content) >= Len(head) + Len(tail)
           /\ content = head \o alt \o tail
           /\ \A k \in 1 .. Len(alt) : alt[k] \notin {"[", "]", "(", ")"}

\* C6: an attachment whose path is a key of assetPathMap comes back as
\* exactly one fragment: an image fragment whose value is assetPathMap[path],
\* not the path of the text, when the path ends with an image extension, and
\* a link-style text fragment pointing at assetPathMap[path] otherwise.
C6_MappedAttachmentRewritten ==
    pc = "scanDone" =>
        \A e \in 1 .. Len(assetPathMap) :
            IsMappedAttachment(scan.content, e) =>
                /\ Len(scan.fragments) = 1
                /\ IF IsImagePath(assetPathMap[e][1])
                   THEN /\ scan.fragments[1].t = "i"
                        /\ scan.fragments[1].v = assetPathMap[e][2]
                        /\ scan.fragments[1].v # assetPathMap[e][1]
                   ELSE /\ scan.fragments[1].t = "t"
                        /\ scan.fragments[1].f = "l"
                        /\ scan.fragments[1].fa.l = assetPathMap[e][2]

\* "![x](../assets/a.png)" was scanned with a.png uploaded.
C6_Witness ==
    /\ pc = "scanDone"
    /\ scan.content = ImageText(<<"x">>, A_PNG)
    /\ MapHas(assetPathMap, A_PNG)
    /\ scan.fragments =
         <<[t |-> "i", v |-> <<"a","s","s","e","t","s","/","a",".","p","n","g">>,
            a |-> <<"x">>]>>

\* "[d](../assets/d.pdf)" was scanned with d.pdf uploaded.
C6_WitnessLink ==
    /\ pc = "scanDone"
    /\ scan.content = LinkText(<<"d">>, D_PDF)
    /\ Len(scan.fragments) = 1
    /\ scan.fragments[1].t = "t"
    /\ scan.fragments[1].fa.l = MapGet(assetPathMap, D_PDF)

ABC_123 == <<"a","b","c","-","1","2","3">>

FIRST_BLOCK == <<"F","i","r","s","t"," ","b","l","o","c","k">>

\* C9: parsing pages/Foo.md gives a page named Foo with exactly two top-level
\* blocks, the first with id abc-123 and text "First block"; the index maps
\* abc-123 to that block; and the fragments of block 2's content hold a
\* reference fragment with the text "First block" for abc-123.
C9_FooExample ==
    files = <<FooFile>> =>
        /\ Len(pageHeap) = 1
        /\ pageHeap[1].name = <<"F", "o", "o">>
        /\ MapKeys(graph.pages) = <<<<"F", "o", "o">>>>
        /\ pageHeap[1].blocks = <<1, 2>>
        /\ Len(pageHeap[1].nodes) = 2
        /\ pageHeap[1].nodes[1].id = ABC_123
        /\ pageHeap[1].nodes[1].content = FIRST_BLOCK
        /\ pageHeap[1].nodes[1].children = <<>>
        /\ pageHeap[1].nodes[2].children = <<>>
        /\ MapKeys(graph.blocks) = <<ABC_123>>
        /\ GetBlock(graph, pageHeap, ABC_123) = <<pageHeap[1].nodes[1]>>
        /\ (pc = "scanDone" /\ scan.content = pageHeap[1].nodes[2].content)
             => \E k \in 1 .. Len(scan.fragments) :
                  scan.fragments[k] = [t |-> "r", v |-> FIRST_BLOCK, q |-> ABC_123]

\* Block 2 of Foo.md was transformed: its text and the reference to block 1.
C9_Witness ==
    /\ files = <<FooFile>>
    /\ pc = "scanDone"
    /\ scan.content = pageHeap[1].nodes[2].content
    /\ Len(scan.fragments) = 2
    /\ scan.fragments[1].t = "t"
    /\ scan.fragments[2].v = FIRST_BLOCK

\* What the attachment of the text would come back as on its own.
FragmentOfAttachment(text) == AttachmentFragment(MatchAttachment(text), assetPathMap)

\* C10, the part on attachments: a text T without "#", "[" and "(" followed
\* by an attachment link comes back as the text fragment T followed by the
\* fragment of the attachment; no character of T is skipped and none of the
\* link is emitted twice.
C10_TextBeforeAttachmentKept ==
    pc = "scanDone" =>
        \A n \in 1 .. (Len(scan.content) - 1) : \A e \in 1 .. Len(assetPathMap) :
            (/\ SafeText(Substring(scan.content, 0, n))
             /\ IsMappedAttachment(SubstringFrom(scan.content, n), e))
                => scan.fragments =
                     <<[t |-> "t", v |-> Substring(scan.content, 0, n)],
                       FragmentOfAttachment(SubstringFrom(scan.content, n))>>

\* The delimiter pairs of the reference syntaxes.
Delimiters ==
    {<<EMBED_OPEN, EMBED_CLOSE>>, <<REF_OPEN, REF_CLOSE>>,
     <<LINK_OPEN, LINK_CLOSE>>, <<TAGLINK_OPEN, LINK_CLOSE>>}

\* The text at the cursor starts with an opening delimiter whose closing
\* counterpart occurs nowhere later in the text.
UnclosedOpenerAtCursor(st) ==
    LET rest == SubstringFrom(st.content, st.i)
    IN \E d \in Delimiters :
         /\ StartsWith(rest, d[1])
         /\ \A e \in 0 .. Len(rest) : ~OccursAt(rest, d[2], e)

\* The text at the cursor is itself an attachment link: "[" or "![", later
\* "](", later ")".
AttachmentLinkAtCursor(st) ==
    LET rest == SubstringFrom(st.content, st.i)
    IN /\ StartsWith(rest, <<"[">>) \/ StartsWith(rest, <<"!", "[">>)
       /\ \E e \in 1 .. Len(rest) :
            /\ OccursAt(rest, <<"]", "(">>, e)
            /\ \E f \in (e + 2) .. (Len(rest) - 1) : rest[f + 1] = ")"

\* C11: when the cursor stands on an opening delimiter that is closed nowhere
\* later in the text (and that is not the start of an attachment link), the
\* step appends the character at the cursor to the buffer, pushes no
\* fragment, moves the cursor by one and stays in the loop.
C11_UnclosedOpenerIsPlainText ==
    [][(/\ pc = "scanning"
        /\ scan.i < Len(scan.content)
        /\ UnclosedOpenerAtCursor(scan)
        /\ ~AttachmentLinkAtCursor(scan))
       => (/\ pc' = "scanning"
           /\ scan'.fragments = scan.fragments
           /\ scan'.buffer = Append(scan.buffer, scan.content[scan.i + 1])
           /\ scan'.i = scan.i + 1)]_vars

\* "(( [[#t" was scanned: both openers stay text, up to the tag.
C11_Witness ==
    /\ pc = "scanDone"
    /\ scan.content = REF_OPEN \o LINK_OPEN \o <<"#", "t">>
    /\ scan.fragments = <<[t |-> "t", v |-> REF_OPEN \o LINK_OPEN], [t |-> "r", v |-> <<"t">>]>>

\* The paths p for which the text is one attachment link, ![alt](p) or
\* [alt](p), alone or followed by an attribute block, alt and p free of
\* brackets and parentheses.
AttachmentPathsOf(content) ==
    {p \in {Substring(content, e + 2, Len(content) - 1 - Len(attr)) :
              e \in 1 .. Len(content), attr \in {<<>>, AttrText}} :
        /\ p # <<>>
        /\ \A k \in 1 .. Len(p) : p[k] \notin {"[", "]", "(", ")"}
        /\ \E bang \in {<<>>, <<"!">>} : \E attr \in {<<>>, AttrText} :
             LET head == bang \o <<"[">>
                 tail == <<"]", "(">> \o p \o <<")">> \o attr
                 alt == Substring(content, Len(head), Len(content) - Len(tail))
             IN /\ Len(content) >= Len(head) + Len(tail)
                /\ content = head \o alt \o tail
                /\ \A k \in 1 .. Len(alt) : alt[k] \notin {"[", "]", "(", ")"}}

\* C12: an attachment link whose path is not a key of assetPathMap comes
\* back as exactly one fragment, a plain-text fragment (no link format, not
\* an image) whose text is the placeholder with the missing path in it.
C12_UnmappedAttachmentNamed ==
    pc = "scanDone" =>
        \A p \in AttachmentPathsOf(scan.content) :
            ~MapHas(assetPathMap, p) =>
                scan.fragments = <<[t |-> "t", v |-> ATTACHMENT_NOT_FOUND \o p \o <<"]">>]>>

\* "![y](../assets/m.png)" was scanned, m.png not being uploaded.
C12_Witness ==
    /\ pc = "scanDone"
    /\ scan.content = ImageText(<<"y">>, M_PNG)
    /\ ~MapHas(assetPathMap, M_PNG)
    /\ AttachmentPathsOf(scan.content) = {M_PNG}
    /\ Len(scan.fragments) = 1
    /\ scan.fragments[1].t = "t"

\* The blocks of the parsed files that declare an id, each as <<page, place>>:
\* the page's place in file order and the block's place in the pre-order walk
\* of its page.
DeclaringBlocks(u) ==
    UNION {{<<p, k>> : k \in {j \in 1 .. Len(PreOrder(pageHeap[p].nodes, pageHeap[p].blocks)) :
                pageHeap[p].nodes[PreOrder(pageHeap[p].nodes, pageHeap[p].blocks)[j]].id = u}} :
             p \in 1 .. Len(pageHeap)}

\* The ids declared by a block of a parsed file, at any depth.
DeclaredIds ==
    UNION {{pageHeap[p].nodes[n].id : n \in 1 .. Len(pageHeap[p].nodes)} :
             p \in 1 .. Len(pageHeap)} \ {NULL}

\* The last of a set of <<page, place>> pairs in file order, then pre-order.
LastOf(set) ==
    CHOOSE b \in set : \A c \in set : c[1] < b[1] \/ (c[1] = b[1] /\ c[2] <= b[2])

\* C22: after parseLogseqGraph the keys of graph.blocks are the ids declared
\* by the blocks of the parsed files, at any depth, and no other; the entry of
\* an id is the last block, in file order and then in pre-order, that
\* declares it.
C22_IndexHoldsLastDeclarer ==
    pc = "graphDone" =>
        /\ {graph.blocks[k][1] : k \in 1 .. Len(graph.blocks)} = DeclaredIds
        /\ \A k \in 1 .. Len(graph.blocks) :
             LET last == LastOf(DeclaringBlocks(graph.blocks[k][1]))
             IN /\ graph.blocks[k][2].page = last[1]
                /\ graph.blocks[k][2].node =
                     PreOrder(pageHeap[last[1]].nodes, pageHeap[last[1]].blocks)[last[2]]

\* Two files declare the id u and the index holds the block of the second.
C22_Witness ==
    /\ pc = "graphDone"
    /\ Len(files) >= 2
    /\ \E p, q \in 1 .. Len(pageHeap) :
         /\ p < q
         /\ DeclaringBlocks(<<"u">>) \cap ({p} \X (1 .. MaxLines)) # {}
         /\ LastOf(DeclaringBlocks(<<"u">>))[1] = q
         /\ MapGet(graph.blocks, <<"u">>).page = q
         /\ pageHeap[p] # pageHeap[q]

\* A block below another block declares an id, and the index holds it.
NestedIdIndexed ==
    /\ pc = "graphDone"
    /\ \E k \in 1 .. Len(graph.blocks) :
         graph.blocks[k][2].node \notin
             {pageHeap[graph.blocks[k][2].page].blocks[j] :
                 j \in 1 .. Len(pageHeap[graph.blocks[k][2].page].blocks)}

\* The line the parser is about to read, trimmed.
NextLine == Trim(ps.lines[ps.lineNo])

\* The step reads a line that is not blank and not a block line, after a
\* block line was read: a continuation line of the current block.
ContinuationStep ==
    /\ pc = "parsing"
    /\ ps.lineNo <= Len(ps.lines)
    /\ NextLine # <<>>
    /\ ~StartsWith(NextLine, <<"-", " ">>)
    /\ ps.currentBlock # 0

\* C24: a step that reads a continuation line changes nothing but the
\* current block.  An id line sets the block's id when the block has none
\* and leaves an id that an earlier id line has set; it adds no property.  A
\* key:: value line adds its property and leaves the id.  Any other line
\* changes nothing.
C24_FirstIdLineWins ==
    [][ContinuationStep =>
         LET cur == ps.currentBlock
             block == ps.page.nodes[cur]
             block2 == ps'.page.nodes[cur]
         IN /\ ps'.page = [ps.page EXCEPT !.nodes[cur] = block2]
            /\ IF MatchId(NextLine).ok
               THEN block2 = [block EXCEPT !.id = IF block.id = NULL
                                                   THEN MatchId(NextLine).value
                                                   ELSE block.id]
               ELSE IF MatchProperty(NextLine).ok
               THEN block2 = [block EXCEPT !.properties =
                                 MapSet(@, MatchProperty(NextLine).key,
                                        MatchProperty(NextLine).value)]
               ELSE block2 = block]_vars

\* The parse of a block with the id lines u and v has ended: the block has a
\* property and its id is one of the two.
C24_Witness ==
    /\ pc = "parsing"
    /\ ps.lineNo > Len(ps.lines)
    /\ ps.lines = Split(TwoIdsFile.content, "\n")
    /\ ps.page.nodes[1].id \in {<<"u">>, <<"v">>}
    /\ ps.page.nodes[1].properties = <<<<<<"k">>, <<"w">>>>>>
    /\ ps.page.nodes[2].id = NULL

\* No line read so far is a block line.
BeforeFirstBlock ==
    \A j \in 1 .. (ps.lineNo - 1) : ~StartsWith(Trim(ps.lines[j]), <<"-", " ">>)

\* C25: a blank or whitespace-only line changes nothing.  Before the first
\* block line, a line that is not a block line changes only the page's
\* properties, by its property when it is a key:: value line and not at all
\* otherwise: no block and no block property comes of it.  The first block
\* line and every line after it leave the page's properties as they are.
C25_PagePropertiesBeforeFirstBlock ==
    [][(pc = "parsing" /\ ps.lineNo <= Len(ps.lines)) =>
         LET isBlockLine == StartsWith(NextLine, <<"-", " ">>)
             match == MatchProperty(NextLine)
         IN /\ NextLine = <<>> => ps' = [ps EXCEPT !.lineNo = @ + 1]
            /\ (BeforeFirstBlock /\ ~isBlockLine /\ NextLine # <<>>) =>
                  ps'.page = [ps.page EXCEPT !.properties =
                                 IF match.ok THEN MapSet(@, match.key, match.value) ELSE @]
            /\ (~BeforeFirstBlock \/ isBlockLine) =>
                  ps'.page.properties = ps.page.properties]_vars

\* p.md was parsed: its first line became the page property k = v, and the
\* line k:: w after the first block became a property of that block.
C25_Witness ==
    /\ pc = "parsing"
    /\ ps.lineNo > Len(ps.lines)
    /\ ps.lines = Split(PropsFile.content, "\n")
    /\ ps.page.properties = <<<<<<"k">>, <<"v">>>>>>
    /\ ps.page.nodes[1].properties = <<<<<<"k">>, <<"w">>>>>>
    /\ Len(ps.page.nodes) = 2

\* C26: the level of every parsed block is a whole number that is not
\* negative: indentation / 2 leaves no half, for odd indentations as well.
C26_LevelIsInteger ==
    \A p \in 1 .. Len(pageHeap) : \A n \in 1 .. Len(pageHeap[p].nodes) :
        /\ pageHeap[p].nodes[n].level.half = 0
        /\ pageHeap[p].nodes[n].level.whole >= 0

\* A block line with two leading spaces was parsed to a block of level 1.
C26_Witness ==
    /\ pc = "graphDone"
    /\ Len(pageHeap) = 1
    /\ Len(pageHeap[1].nodes) = 2
    /\ LeadingSpaces(Split(files[1].content, "\n")[2]) = 2
    /\ pageHeap[1].nodes[2].level = LevelOf(2)
    /\ pageHeap[1].nodes[2].level.half = 0

\* The page objects that graph.pages holds.
PagesOfGraph == {graph.pages[k][2] : k \in 1 .. Len(graph.pages)}

\* C30: after parseLogseqGraph every block of graph.blocks is a block of a
\* page that graph.pages holds, reached from the page's top-level blocks.
C30_IndexedBlockIsInAPage ==
    pc = "graphDone" =>
        \A k \in 1 .. Len(graph.blocks) :
            /\ graph.blocks[k][2].page \in PagesOfGraph
            /\ \E j \in 1 .. Len(pageHeap[graph.blocks[k][2].page].nodes) :
                 PreOrder(pageHeap[graph.blocks[k][2].page].nodes,
                          pageHeap[graph.blocks[k][2].page].blocks)[j] = graph.blocks[k][2].node

\* Two files of different names were parsed, and the indexed blocks are
\* blocks of the two pages.
C30_Witness ==
    /\ pc = "graphDone"
    /\ Len(files) = 2
    /\ Len(graph.pages) = 2
    /\ Len(graph.blocks) = 2
    /\ {graph.blocks[k][2].page : k \in 1 .. Len(graph.blocks)} = PagesOfGraph

---------------------------------------------------------------------------
(* Properties of the import run *)

\* The run got as far as the batch loop.
Parsed == \E n \in 1 .. Len(orca.notifications) : orca.notifications[n].msg = "parsed"

\* ceil(n / b)
Ceil(n, b) == (n + b - 1) \div b

\* C7: a run that has ended after the parse has called importPageBatch
\* ceil(N / B) times, with contiguous slices of the page list in order, every
\* slice but the last of B pages, that together make up the page list.
C7_BatchesCoverPages ==
    (pc = "returned" /\ Parsed) =>
        /\ Len(main.calls) = Ceil(Len(main.allPages), BATCH_SIZE)
        /\ Concat(main.calls) = main.allPages
        /\ \A j \in 1 .. Len(main.calls) :
             /\ main.calls[j] = Slice(main.allPages, (j - 1) * BATCH_SIZE, j * BATCH_SIZE)
             /\ j < Len(main.calls) => Len(main.calls[j]) = BATCH_SIZE

\* The k-th command of the log is a create-block or set-properties command
\* that failed: it threw or gave no id.
FailedCreate(k) ==
    /\ orca.log[k].cmd \in {"insertBlock", "setProperties"}
    /\ orca.log[k].outcome \in {"throw", "null"}

\* The heading of page p was asked for.
Attempted(p) ==
    \E j \in 1 .. Len(orca.log) :
        orca.log[j].cmd = "insertBlock" /\ orca.log[j].src = <<p, 0>>

\* C8: when a command that creates the blocks of a page has failed, the run
\* ends with an error notification and with every page of the page list
\* attempted, the pages after the failed one included.
C8_FailedPageDoesNotAbort ==
    pc = "returned" =>
        \A k \in 1 .. Len(orca.log) :
            FailedCreate(k) =>
                /\ \E n \in 1 .. Len(orca.notifications) : orca.notifications[n].type = "error"
                /\ \A a \in 1 .. Len(main.allPages) : Attempted(main.allPages[a])

\* A run in which the host fails nothing calls importPageBatch for every
\* slice and ends with the success notification.
FaultFreeRunCompletes ==
    (pc = "returned" /\ Parsed /\ orca.mayFail) =>
        /\ Concat(main.calls) = main.allPages
        /\ Len(main.calls) = Ceil(Len(main.allPages), BATCH_SIZE)
        /\ orca.notifications[Len(orca.notifications)] = [type |-> "success", msg |-> "allDone"]
        /\ \A a \in 1 .. Len(main.allPages) : Attempted(main.allPages[a])

\* Five pages were imported in three batches.
ThreeBatches ==
    /\ pc = "returned"
    /\ Len(main.allPages) = 5
    /\ Len(main.calls) = 3
    /\ Len(main.calls[3]) = 1

\* The notifications of a type.
NotificationsOf(type) ==
    {n \in 1 .. Len(orca.notifications) : orca.notifications[n].type = type}

\* C13: once a host command has thrown inside importPageBatch, the run has
\* returned through its catch block: the throw is the last command the host
\* was given (no write of a later batch, none that undoes an earlier one, and
\* the blocks created before are still there), importPageBatch was not
\* called again and the loop index did not move on, exactly one error
\* notification was emitted, it is the last notification, and there is no
\* success notification.
C13_ThrowEndsRun ==
    \A k \in 1 .. Len(orca.log) :
        (orca.log[k].outcome = "throw" /\ orca.log[k].cmd # "read-directory") =>
            /\ pc = "returned"
            /\ k = Len(orca.log)
            /\ main.i = (Len(main.calls) - 1) * BATCH_SIZE
            /\ Cardinality(NotificationsOf("error")) = 1
            /\ NotificationsOf("success") = {}
            /\ orca.notifications[Len(orca.notifications)].type = "error"
            /\ \A j \in 1 .. (k - 1) :
                 (orca.log[j].cmd = "insertBlock" /\ orca.log[j].outcome = "ok")
                    => /\ orca.log[j].id <= Len(orca.blocks)
                       /\ orca.blocks[orca.log[j].id].parent = orca.log[j].target

\* A command of the second batch threw after the first batch was imported.
C13_Witness ==
    /\ pc = "returned"
    /\ Len(main.calls) = 2
    /\ Len(main.allPages) > 2 * BATCH_SIZE
    /\ orca.log[Len(orca.log)].outcome = "throw"
    /\ Len(orca.blocks) > 2

\* What read-directory came to: "ok", "null" (no listing) or "throw"; "none"
\* when it was not called.
ReadOutcome ==
    IF \E k \in 1 .. Len(orca.log) : orca.log[k].cmd = "read-directory"
    THEN orca.log[CHOOSE k \in 1 .. Len(orca.log) : orca.log[k].cmd = "read-directory"].outcome
    ELSE "none"

\* The path setting is empty or blank, the folder could not be read or holds
\* nothing, or it holds no .md file.
NothingToImport ==
    \/ Trim(orca.logseqPath) = <<>>
    \/ ReadOutcome \in {"null", "throw"}
    \/ Len(orca.directory) = 0
    \/ Len(SelectSeq(orca.directory, IsMd)) = 0

\* The commands that write to the host's store.
WriteCommands == {"invokeGroup", "insertBlock", "setProperties", "updateBlock"}

\* C14: a run that had nothing to import has ended with exactly one warning
\* and no error notification, without a parse, without a call of
\* importPageBatch and without a host write.
C14_NothingToImportWarns ==
    (pc = "returned" /\ NothingToImport) =>
        /\ Cardinality(NotificationsOf("warn")) = 1
        /\ NotificationsOf("error") = {}
        /\ pageHeap = <<>>
        /\ graph = EmptyGraph
        /\ main.calls = <<>>
        /\ \A k \in 1 .. Len(orca.log) : orca.log[k].cmd \notin WriteCommands

\* The folder held only a file that is not a note: one warning, nothing else.
C14_Witness ==
    /\ pc = "returned"
    /\ orca.directory = <<ConfigFile>>
    /\ ReadOutcome = "ok"
    /\ orca.notifications =
         <<[type |-> "info", msg |-> "reading"], [type |-> "warn", msg |-> "noMarkdown"]>>
    /\ pageHeap = <<>>

\* The run ended with the success notification.
Succeeded == pc = "returned" /\ NotificationsOf("success") # {}

\* The source blocks of the page list, each as <<page, node>>.
SourceBlocks ==
    UNION {{<<main.allPages[a], n>> : n \in 1 .. Len(pageHeap[main.allPages[a]].nodes)} :
             a \in 1 .. Len(main.allPages)}

SourceBlock(b) == pageHeap[b[1]].nodes[b[2]]

\* The batch (1, 2, ...) that a source block's page is imported in.
BatchOf(b) ==
    ((CHOOSE a \in 1 .. Len(main.allPages) : main.allPages[a] = b[1]) - 1) \div BATCH_SIZE + 1

\* The DbId of the block created for a source block, 0 when there is none.
DbIdOf(b) ==
    LET made == {k \in 1 .. Len(orca.log) :
                   /\ orca.log[k].cmd = "insertBlock"
                   /\ orca.log[k].src = b
                   /\ orca.log[k].outcome = "ok"}
    IN IF made = {} THEN 0 ELSE orca.log[CHOOSE k \in made : TRUE].id

\* The text the host holds for a source block.
TargetText(b) == orca.blocks[DbIdOf(b)].content[1].v

\* The source blocks that declare the id u.
Declarers(u) == {b \in SourceBlocks : SourceBlock(b).id = u}

\* The ids u with a reference ((u)) in a text.
ReferencesIn(content) ==
    {MatchAt("ref", content, k).group :
        k \in {j \in 0 .. (Len(content) - 1) : MatchAt("ref", content, j).ok}}

\* ((n)) for the DbId that the run gave to u.
ResolvedRef(u) == REF_OPEN \o ToDigits(ReferencedDbId(main.uuidToDbIdMap, u)) \o REF_CLOSE

Contains(s, p) == \E k \in 0 .. Len(s) : OccursAt(s, p, k)

\* Block b was created and references u, and every block that declares u is
\* imported in a later batch than b.
ForwardAcrossBatches(b, u) ==
    /\ DbIdOf(b) # 0
    /\ u \in ReferencesIn(SourceBlock(b).content)
    /\ Declarers(u) # {}
    /\ \A d \in Declarers(u) : BatchOf(d) > BatchOf(b)

SoleDeclarer(b) == SourceBlock(b).id # NULL /\ Declarers(SourceBlock(b).id) = {b}

BatchDone(k) == pc = "batchLoop" /\ Len(main.calls) = k /\ main.i = k * BATCH_SIZE

\* C16: when pass 2 of a batch is over, every block created in that batch
\* whose raw text references an id that uuidToDbIdMap holds a DbId for has
\* target content that carries that DbId, with or without an id of its own.
C16_RegisteredReferenceResolved ==
    \A b \in SourceBlocks : \A u \in ReferencesIn(SourceBlock(b).content) :
        (/\ BatchDone(BatchOf(b))
         /\ DbIdOf(b) # 0
         /\ ReferencedDbId(main.uuidToDbIdMap, u) # 0)
            => Contains(TargetText(b), ResolvedRef(u))

\* c.md was imported in one batch: its blocks with the ids u and v reference
\* each other and both were rewritten.
C16_Witness ==
    /\ BatchDone(1)
    /\ \E b, c \in SourceBlocks :
         /\ SourceBlock(b).id = <<"u">> /\ SourceBlock(c).id = <<"v">>
         /\ DbIdOf(b) # 0 /\ DbIdOf(c) # 0 /\ b[1] = c[1]
         /\ TargetText(b) = <<"x", " ">> \o ResolvedRef(<<"v">>)
         /\ TargetText(c) = <<"y", " ">> \o ResolvedRef(<<"u">>)

\* The create-block commands the host was given, in order.
CreateWrites == SelectSeq(orca.log, LAMBDA e : e.cmd = "insertBlock")

\* The source blocks of a page in document order, after the page itself.
PageOrder(p) ==
    LET order == PreOrder(pageHeap[p].nodes, pageHeap[p].blocks)
    IN <<<<p, 0>>>> \o [k \in 1 .. Len(order) |-> <<p, order[k]>>]

\* The pages of the page list in order, each followed by its blocks.
DocumentOrder == Concat([a \in 1 .. Len(main.allPages) |-> PageOrder(main.allPages[a])])

\* The block above a source block: <<page, 0>> for a top-level block.
ParentOf(b) ==
    LET above == {n \in 1 .. Len(pageHeap[b[1]].nodes) :
                    \E c \in 1 .. Len(pageHeap[b[1]].nodes[n].children) :
                        pageHeap[b[1]].nodes[n].children[c] = b[2]}
    IN IF above = {} THEN <<b[1], 0>> ELSE <<b[1], CHOOSE n \in above : TRUE>>

\* C17: the create-block commands issued so far are a beginning of the
\* document order (the pages in the order of the page list, the heading
\* first, then the page's blocks in pre-order), and each block is created
\* under the id that the create-block command of its parent returned.
C17_CreatesFollowDocumentOrder ==
    /\ Len(CreateWrites) <= Len(DocumentOrder)
    /\ \A k \in 1 .. Len(CreateWrites) :
         /\ CreateWrites[k].src = DocumentOrder[k]
         /\ IF CreateWrites[k].src[2] = 0
            THEN CreateWrites[k].target = 0
            ELSE \E j \in 1 .. (k - 1) :
                   /\ CreateWrites[j].src = ParentOf(CreateWrites[k].src)
                   /\ CreateWrites[k].target = CreateWrites[j].id

\* A run created two pages or more and, in one of them, a block below a block.
C17_Witness ==
    /\ Succeeded
    /\ Len(main.allPages) >= 2
    /\ Len(CreateWrites) = Len(DocumentOrder)
    /\ \E k \in 1 .. Len(CreateWrites) :
         /\ CreateWrites[k].outcome = "ok"
         /\ CreateWrites[k].src[2] # 0
         /\ ParentOf(CreateWrites[k].src)[2] # 0
         /\ orca.blocks[CreateWrites[k].id].parent = DbIdOf(ParentOf(CreateWrites[k].src))

\* The step gave the host one more command; the command it gave.
Issued == Len(orca'.log) = Len(orca.log) + 1

LastCommand == orca'.log[Len(orca'.log)]

\* The step created (or got no id for) a block that declares an id.
CreatedWithId ==
    /\ Issued
    /\ LastCommand.cmd = "insertBlock"
    /\ LastCommand.outcome # "throw"
    /\ LastCommand.src[2] # 0
    /\ SourceBlock(LastCommand.src).id # NULL

\* C18: uuidToDbIdMap changes only in the step in which create-block returns
\* for a block that declares an id, a step that sets no property and creates
\* no other block: the entry of that id then holds what create-block
\* returned, every other entry is as it was and no key has gone or moved.
C18_EntryWrittenAtCreate ==
    [][LET map == main.uuidToDbIdMap
           map2 == main'.uuidToDbIdMap
       IN IF CreatedWithId
          THEN LET u == SourceBlock(LastCommand.src).id
               IN /\ MapHas(map2, u)
                  /\ MapGet(map2, u) = LastCommand.id
                  /\ Len(map2) = Len(map) + (IF MapHas(map, u) THEN 0 ELSE 1)
                  /\ \A k \in 1 .. Len(map) :
                       /\ map2[k][1] = map[k][1]
                       /\ map[k][1] # u => map2[k] = map[k]
                  /\ ~\E j \in 1 .. Len(orca.log) :
                         /\ orca.log[j].src = LastCommand.src
                         /\ orca.log[j].cmd \in {"setProperties", "insertBlock"}
                  /\ ~\E j \in 1 .. Len(orca.log) :
                         /\ orca.log[j].cmd = "insertBlock"
                         /\ orca.log[j].src[2] # 0
                         /\ ParentOf(orca.log[j].src) = LastCommand.src
          ELSE map2 = map]_vars

\* The block of p.md with the id u and a property was created and entered
\* into the map; its property is not set yet and its child is not created.
C18_Witness ==
    /\ pc = "setProperties"
    /\ orca.log[Len(orca.log)].cmd = "insertBlock"
    /\ orca.log[Len(orca.log)].outcome = "ok"
    /\ SourceBlock(orca.log[Len(orca.log)].src).id = <<"u">>
    /\ Len(SourceBlock(orca.log[Len(orca.log)].src).children) > 0
    /\ MapGet(main.uuidToDbIdMap, <<"u">>) = orca.log[Len(orca.log)].id

\* The number of write groups opened before the k-th command of the log.
GroupsBefore(k) ==
    Cardinality({j \in 1 .. (k - 1) : orca.log[j].cmd = "invokeGroup"})

\* C19: the host's commands come batch by batch, two groups to a batch: a
\* create-block or set-properties command of a page of batch j comes in
\* group 2j - 1, and only there; an update-content command comes in a group
\* 2j; a batch that is over opened exactly two groups, and a group of batch
\* j + 1 opens only when batch j is over.
C19_TwoGroupsPerBatchInOrder ==
    /\ \A k \in 1 .. Len(orca.log) :
         /\ orca.log[k].cmd \in {"insertBlock", "setProperties"} =>
              /\ GroupsBefore(k) % 2 = 1
              /\ (GroupsBefore(k) + 1) \div 2 <= Len(main.calls)
              /\ \E a \in 1 .. Len(main.calls[(GroupsBefore(k) + 1) \div 2]) :
                     main.calls[(GroupsBefore(k) + 1) \div 2][a] = orca.log[k].src[1]
         /\ orca.log[k].cmd = "updateBlock" =>
              /\ GroupsBefore(k) % 2 = 0
              /\ GroupsBefore(k) >= 2
              /\ GroupsBefore(k) \div 2 <= Len(main.calls)
    /\ pc \in {"pass1", "create", "setProperties"} =>
         GroupsBefore(Len(orca.log) + 1) = 2 * Len(main.calls) - 1
    /\ (pc \in {"pass2", "batchLoop"} \/ Succeeded) =>
         GroupsBefore(Len(orca.log) + 1) = 2 * Len(main.calls)
    /\ GroupsBefore(Len(orca.log) + 1) \in {2 * Len(main.calls) - 1, 2 * Len(main.calls)}

\* A run of two batches or more with an update-content write in the first
\* batch and one in a later batch.
C19_Witness ==
    /\ Succeeded
    /\ Len(main.calls) >= 2
    /\ \E k, m \in 1 .. Len(orca.log) :
         /\ orca.log[k].cmd = "updateBlock" /\ GroupsBefore(k) = 2
         /\ orca.log[m].cmd = "updateBlock" /\ GroupsBefore(m) > 3

\* The text that pass 1 wrote for the target block t.
PassOneText(t) ==
    orca.log[CHOOSE k \in 1 .. Len(orca.log) :
                orca.log[k].cmd = "insertBlock" /\ orca.log[k].id = t].v

\* A text without link, tag, block reference, embed or asset syntax.
NoSyntax(text) ==
    \A kind \in {"asset", "link", "tag", "ref", "embed"} :
        \A k \in 0 .. (Len(text) - 1) : ~MatchAt(kind, text, k).ok

\* The step is pass 2's visit of the target block t.
VisitOf(t) ==
    /\ pc = "pass2"
    /\ imp.entry <= Len(main.uuidToDbIdMap)
    /\ main.uuidToDbIdMap[imp.entry][2] = t
    /\ t # 0

\* The step issued an update-content write for the target block t.
UpdateIssued(t) ==
    /\ Issued
    /\ LastCommand.cmd = "updateBlock"
    /\ LastCommand.target = t

\* C20: when pass 2 visits a target block it issues an update-content write
\* for it exactly when the content recomputed from the text written in pass 1
\* differs from that text, and none for a text without any of the syntaxes.
C20_UpdateIffContentDiffers ==
    [][\A t \in 1 .. Len(orca.blocks) :
          VisitOf(t) =>
              /\ UpdateIssued(t) <=>
                     LinkedContent(PassOneText(t), main.uuidToDbIdMap) # PassOneText(t)
              /\ NoSyntax(PassOneText(t)) => ~UpdateIssued(t)]_vars

\* The same for a target block whose id is declared by one block only.
C20_UpdateIffContentDiffersUniqueId ==
    [][\A t \in 1 .. Len(orca.blocks) :
          (VisitOf(t) /\ Cardinality(Declarers(main.uuidToDbIdMap[imp.entry][1])) = 1) =>
              /\ UpdateIssued(t) <=>
                     LinkedContent(PassOneText(t), main.uuidToDbIdMap) # PassOneText(t)
              /\ NoSyntax(PassOneText(t)) => ~UpdateIssued(t)]_vars

\* Pass 2 has just rewritten a target block: the text differs from the one
\* written in pass 1.
C20_Witness ==
    /\ pc = "pass2"
    /\ orca.log[Len(orca.log)].cmd = "updateBlock"
    /\ orca.log[Len(orca.log)].outcome = "ok"
    /\ orca.log[Len(orca.log)].v # PassOneText(orca.log[Len(orca.log)].target)
    /\ orca.blocks[orca.log[Len(orca.log)].target].content[1].v = orca.log[Len(orca.log)].v

\* What the page-link and the tag substitution write for the name X.
PageRef(X) == <<"#", "[", "[", "(", "(">> \o X \o <<")", ")", "]", "]">>

\* The names X of the page links [[X]] and of the tags #X of a text.
LinkedNames(content) ==
    {MatchAt(kind, content, k).group :
        <<kind, k>> \in {c \in {"link", "tag"} \X (0 .. (Len(content) - 1)) :
                            MatchAt(c[1], content, c[2]).ok}}

\* C21: the text that pass 2 writes for a block holds, for every page link
\* [[X]] and tag #X of the raw text, the substitution #[[((X))]] as the link
\* or tag rule wrote it, whether or not X is a key of uuidToDbIdMap: no later
\* rule rewrote it.
C21_SubstitutedTextNotRewritten ==
    \A k \in 1 .. Len(orca.log) :
        (orca.log[k].cmd = "updateBlock" /\ orca.log[k].outcome = "ok") =>
            \A X \in LinkedNames(PassOneText(orca.log[k].target)) :
                Contains(orca.log[k].v, PageRef(X))

\* A block with a page link and a tag, neither named like a registered id, was
\* rewritten.
C21_Witness ==
    \E k \in 1 .. Len(orca.log) :
        /\ orca.log[k].cmd = "updateBlock" /\ orca.log[k].outcome = "ok"
        /\ LinkedNames(PassOneText(orca.log[k].target)) = {<<"F", "o", "o">>, <<"t">>}
        /\ Contains(orca.log[k].v, PageRef(<<"F", "o", "o">>))
        /\ Contains(orca.log[k].v, PageRef(<<"t">>))

\* The files that were parsed into the page named name.
FilesNamed(name) == {f \in 1 .. Len(files) : PageName(files[f].path) = name}

\* C23: after the parse graph.pages has one entry for each distinct page
\* name of the parsed files and no other, the entry of a name is the page
\* parsed from the last file of that name, and the page list handed to the
\* importer has one page for each distinct name: the values of graph.pages.
C23_OnePagePerName ==
    Parsed =>
        LET names == {PageName(files[f].path) : f \in 1 .. Len(files)}
        IN /\ {graph.pages[k][1] : k \in 1 .. Len(graph.pages)} = names
           /\ Len(graph.pages) = Cardinality(names)
           /\ \A k \in 1 .. Len(graph.pages) :
                /\ graph.pages[k][2] = Max(FilesNamed(graph.pages[k][1]))
                /\ pageHeap[graph.pages[k][2]] =
                     ParseLogseqFile(files[Max(FilesNamed(graph.pages[k][1]))])
           /\ Len(main.allPages) = Cardinality(names)
           /\ main.allPages = [k \in 1 .. Len(graph.pages) |-> graph.pages[k][2]]

\* pages/p.md and journals/p.md were both parsed, with another file: two
\* names, and the page p is the one of the later file.
C23_Witness ==
    /\ Parsed
    /\ Len(files) = 3
    /\ Len(main.allPages) = 2
    /\ Cardinality(FilesNamed(<<"p">>)) = 2
    /\ files[Max(FilesNamed(<<"p">>))] = PropsFile
    /\ pageHeap[MapGet(graph.pages, <<"p">>)].properties # <<>>

---------------------------------------------------------------------------
(* Properties of the upload of the assets *)

\* The DbId of the heading created for a page, 0 when there is none.
DbIdOfPage(p) == DbIdOf(<<p, 0>>)

\* No block of the pages to import has a link or an image whose path begins
\* with ../assets/.
NoAssetReference ==
    \A a \in 1 .. Len(imp.pagesToImport) :
        \A n \in 1 .. Len(pageHeap[imp.pagesToImport[a]].nodes) :
            ~Contains(pageHeap[imp.pagesToImport[a]].nodes[n].content,
                      <<"]", "(">> \o ASSETS_PREFIX)

\* The commands of the log with one of the given names.
CommandsOf(cmds) == {k \in 1 .. Len(orca.log) : orca.log[k].cmd \in cmds}

\* preUploadAssetsAndGetPathMap has returned.
PreUploadOver == pc \in {"preUploadReturned", "pages", "batchDone"}

\* C27: without a reference to a path under ../assets/ the map stays empty
\* and neither the assets folder is looked up nor an upload called.  When
\* there are references and the folder has no assets folder, the failed
\* lookup is followed by one error notification, no file lookup and no
\* upload, and the map returned is empty.  In both cases importPageBatch
\* goes on to the pages: when it returns, the heading of every page of the
\* batch was asked for, and every page whose heading was created got its
\* blocks.
C27_NoAssetsOrNoFolder ==
    /\ NoAssetReference =>
         /\ assetPathMap = <<>>
         /\ CommandsOf({"getDirectoryHandle", "getFileHandle", "upload-assets"}) = {}
    /\ (~NoAssetReference /\ ~up.logseqFolder.hasAssets /\ PreUploadOver) =>
         /\ assetPathMap = <<>>
         /\ Cardinality(CommandsOf({"getDirectoryHandle"})) = 1
         /\ CommandsOf({"getFileHandle", "upload-assets"}) = {}
         /\ Cardinality({n \in NotificationsOf("error") :
                            orca.notifications[n].msg = "noAssetsFolder"}) = 1
    /\ ((NoAssetReference \/ ~up.logseqFolder.hasAssets) /\ pc = "batchDone") =>
         \A a \in 1 .. Len(imp.pagesToImport) :
             /\ Attempted(imp.pagesToImport[a])
             /\ (DbIdOfPage(imp.pagesToImport[a]) # 0
                 /\ Len(pageHeap[imp.pagesToImport[a]].blocks) > 0) =>
                    \E k \in CommandsOf({"batchInsertReprs"}) :
                        orca.log[k].target = DbIdOfPage(imp.pagesToImport[a])

\* Pages with attachments under ../assets/ were imported from a folder
\* without an assets folder.
C27_Witness ==
    /\ pc = "batchDone"
    /\ ~NoAssetReference
    /\ ~up.logseqFolder.hasAssets
    /\ Len(imp.pagesToImport) >= 2
    /\ assetPathMap = <<>>
    /\ Cardinality(CommandsOf({"batchInsertReprs"})) >= 2

\* Pages without attachments were imported.
NoAssetsImported ==
    /\ pc = "batchDone"
    /\ NoAssetReference
    /\ Len(imp.pagesToImport) >= 2
    /\ Cardinality(CommandsOf({"batchInsertReprs"})) >= 2

\* The upload-assets call of the run, when there was one.
UploadCall == CHOOSE k \in CommandsOf({"upload-assets"}) : TRUE

\* C28: when preUploadAssetsAndGetPathMap has returned, every entry p -> q
\* of the map has for q the path the asset store gave to the file read from
\* p, and a path whose file is not in the assets folder has no entry.
C28_EntryIsStoredPathOfItsFile ==
    PreUploadOver =>
        \A k \in 1 .. Len(assetPathMap) :
            /\ assetPathMap[k][2] = StoredPath(RelativePath(assetPathMap[k][1]))
            /\ RelativePath(assetPathMap[k][1]) \in up.logseqFolder.assets

\* Two files were read and uploaded, none failed, and the map has both.
C28_Witness ==
    /\ PreUploadOver
    /\ Len(up.filesToUpload) = 2
    /\ Len(up.allAssetPaths) = 3
    /\ CommandsOf({"upload-assets"}) # {}
    /\ orca.log[UploadCall].outcome = "ok"
    /\ NotificationsOf("warn") = {}
    /\ Len(assetPathMap) = 2
    /\ \A k \in 1 .. 2 : assetPathMap[k][2] = StoredPath(RelativePath(assetPathMap[k][1]))

---------------------------------------------------------------------------
(* Properties of the run whose importPageBatch fetches the blocks           *)

\* The get-blocks calls that returned something that is no list.
InvalidFetches ==
    {k \in 1 .. Len(orca.log) :
        orca.log[k].cmd = "get-blocks" /\ orca.log[k].outcome = "null"}

\* C29: when get-blocks, the bulk fetch of the blocks created in a batch,
\* returns something that is no list, the run is aborted: nothing is written
\* to the host afterwards (no later batch is imported), exactly one error
\* notification is emitted, and no success notification is.
C29_InvalidFetchAbortsRun ==
    \A k \in InvalidFetches :
        /\ \A j \in (k + 1) .. Len(orca.log) : orca.log[j].cmd \notin WriteCommands
        /\ Cardinality(NotificationsOf("error")) = 1
        /\ NotificationsOf("success") = {}

\* A run in which a fetch returned no list, and which went on to import the
\* next batch and ended with the success notification.
C29_Witness ==
    /\ pc = "returned"
    /\ \E k \in InvalidFetches :
         \E j \in (k + 1) .. Len(orca.log) :
            orca.log[j].cmd = "insertBlock" /\ orca.log[j].outcome = "ok"
    /\ NotificationsOf("success") # {}
    /\ Cardinality(NotificationsOf("error")) = 1

====
